---- MODULE Spec2Model ----
(***************************************************************************)
(* A model of the FSP retrieval client of czajorlukasz/fiskread:           *)
(*   - the packet codec and the session state of FSPClient                 *)
(*     (src/fsp_client.py),                                                *)
(*   - the two streaming loops read_file_fsp and list_directory_full_paged,*)
(*   - the retrieval run of main() (src/main.py) with its signal handler   *)
(*     and the storage sink (src/storage.py).                              *)
(* Strings are sequences of character codes, byte strings are sequences of *)
(* numbers 0..255; Python's 0-based slices are the operator Slice.         *)
(***************************************************************************)
EXTENDS Integers, Sequences, FiniteSets, TLC

VARIABLES
    key,                  \* FSPClient.key
    sequence,             \* FSPClient.sequence
    session_initialized,  \* FSPClient.session_initialized
    last_sent,            \* header of the latest packet handed to sendto
    nsent,                \* how many packets this client has built since it was created
    cmds,                 \* ghost: the commands of the packets sent in this run
    inflight,             \* requests sent whose recvfrom has neither returned nor timed out
    op,                   \* the client operation the main flow is executing
    opst,                 \* where that operation stands
    ret,                  \* the value the operation returned
    last_key,             \* ghost: key of the latest well-formed response with key # 0
    faults,               \* how many more requests the environment may fail
    hst,                  \* the signal handler: "idle", or "wait" inside its close()
    signals,              \* how many more signals the environment may deliver
    pc,                   \* the caller's position
    lp,                   \* the locals of read_file_fsp or list_directory_full_paged
    stack,                \* the gather_and_print calls in progress, innermost last
    started,              \* main's flag `started`
    stats,                \* main's counters `stats`
    current_idx,          \* main's loop variable over the CC directories
    prev_found,           \* stats['found'] before the current CC directory
    medium_info,          \* what print_medium_dat_info returned
    disk,                 \* the local storage: remote path -> bytes saved
    signalled,            \* ghost: a signal has been delivered
    aborted,              \* ghost: nsent when the run decided to abort, else -1
    sv,                   \* the locals of save_file_from_fsp
    attempted,            \* ghost: the remote paths handed to save_file_from_fsp, in order
    walked,               \* ghost: the paths gather_and_print was called with, in order
    pure,                 \* a call of a function without state: its input and output
    env                   \* the server: its key choices and its file system

clientVars == <<key, sequence, session_initialized>>
wireVars == <<last_sent, nsent, cmds, inflight, last_key, faults>>
opVars == <<op, opst, ret>>
sigVars == <<hst, signals>>
auxVars == <<sv, attempted, walked, pure>>
runVars == <<stack, started, stats, current_idx, prev_found, medium_info, disk,
            signalled, aborted, auxVars>>
mainVars == <<pc, env, runVars>>
callerVars == <<lp, mainVars>>
vars == <<key, sequence, session_initialized, last_sent, nsent, cmds, inflight,
          op, opst, ret, last_key, faults, hst, signals, pc, lp, env, stack,
          started, stats, current_idx, prev_found, medium_info, disk, signalled,
          aborted, sv, attempted, walked, pure>>

----------------------------------------------------------------------------
(* Bounds of the model. *)

MaxPackets == 5
MaxFaults == 2
MaxDirLen == 3
MaxPage == 3
PageFaults == 1
MaxFileLen == 300
ReadFaults == 1

----------------------------------------------------------------------------
(* Program constants. *)

CC_VERSION == 16
CC_ERR == 64
CC_GET_DIR == 65
CC_GET_FILE == 66
CC_BYE == 74
CC_STAT == 77
HEADER_LEN == 12
RDTYPE_END == 0
RDTYPE_FILE == 1
RDTYPE_DIR == 2
NUL == 0
TwoTo8 == 256
TwoTo16 == 65536

----------------------------------------------------------------------------
(* Byte strings. *)

Min(a, b) == IF a < b THEN a ELSE b
Max(a, b) == IF a > b THEN a ELSE b

\* Python's s[a:b] for 0 <= a, b: clamped to the string, empty when a >= b.
Slice(s, a, b) ==
    LET lo == Min(a, Len(s))
        hi == Min(b, Len(s))
    IN  IF lo >= hi THEN <<>> ELSE SubSeq(s, lo + 1, hi)

\* Python's s[a:].
SliceFrom(s, a) == Slice(s, a, Len(s))

\* The sum of s[lo..hi], by halves: a packet may hold 2^16 bytes and more.
RECURSIVE SumRange(_, _, _)
SumRange(s, lo, hi) ==
    IF lo > hi THEN 0
    ELSE IF lo = hi THEN s[lo]
    ELSE SumRange(s, lo, (lo + hi) \div 2) + SumRange(s, (lo + hi) \div 2 + 1, hi)

SumBytes(s) == SumRange(s, 1, Len(s))

\* struct.pack('>H', v) and struct.pack('>I', v)
PackH(v) == <<v \div TwoTo8, v % TwoTo8>>
PackI(v) == <<(v \div (TwoTo16 * TwoTo8)) % TwoTo8, (v \div TwoTo16) % TwoTo8,
              (v \div TwoTo8) % TwoTo8, v % TwoTo8>>

\* A 16-bit field read low byte first.
UnpackHLittle(b) == b[2] * TwoTo8 + b[1]

\* struct.unpack('>H', b)[0] and struct.unpack('>I', b)[0]
UnpackH(b) == b[1] * TwoTo8 + b[2]
UnpackI(b) == ((b[1] * TwoTo8 + b[2]) * TwoTo8 + b[3]) * TwoTo8 + b[4]

\* position & 0xFFFFFFFF.  TLC's integers are 32-bit and signed, so the model
\* holds only positions in 0 .. 2^31 - 1, which the mask leaves as they are.
Mask32(v) == IF v >= 0 THEN v ELSE v + 2147483647 + 1

RECURSIVE Zeros(_)
Zeros(n) == IF n <= 0 THEN <<>> ELSE <<0>> \o Zeros(n - 1)

----------------------------------------------------------------------------
(* The packet codec of FSPClient. *)

\* A checksum that does not start from the packet's length.
ChecksumNoLength(packet) ==
    LET checksum_sum == SumBytes(packet)
    IN  (checksum_sum + (checksum_sum \div TwoTo8)) % TwoTo8

\* The checksum of a packet whose byte 1 is still the placeholder 0.
Checksum(packet) ==
    LET checksum_sum == Len(packet) + SumBytes(packet)
    IN  (checksum_sum + (checksum_sum \div TwoTo8)) % TwoTo8

\* _build_fsp_packet without its increment of self.sequence (the actions
\* that build a packet make that increment).
build_fsp_packet(command, position, data) ==
    LET key_field == key % TwoTo16
        seq_field == sequence % TwoTo16
        data_length_field == Len(data) % TwoTo16
        packet == <<command>> \o <<0>> \o PackH(key_field) \o PackH(seq_field)
                  \o PackH(data_length_field) \o PackI(Mask32(position)) \o data
    IN  <<packet[1], Checksum(packet)>> \o SliceFrom(packet, 2)

\* An increment that forgets the 16-bit wrap.
NextSequenceNoWrap(s) == s + 1

\* self.sequence = (self.sequence + 1) & 0xFFFF
NextSequence(s) == (s + 1) % TwoTo16

None == [none |-> TRUE]

\* _parse_fsp_packet without its update of self.key (ParsedKey gives the
\* key the update installs).
parse_fsp_packet(packet) ==
    IF Len(packet) < HEADER_LEN THEN None
    ELSE LET data_length == UnpackH(Slice(packet, 6, 8))
         IN  [none |-> FALSE,
              command |-> packet[1],
              key |-> UnpackH(Slice(packet, 2, 4)),
              sequence |-> UnpackH(Slice(packet, 4, 6)),
              data_length |-> data_length,
              position |-> UnpackI(Slice(packet, 8, 12)),
              data |-> IF data_length > 0
                       THEN Slice(packet, 12, 12 + data_length) ELSE <<>>,
              xtra_data |-> IF Len(packet) > 12 + data_length
                            THEN SliceFrom(packet, 12 + data_length) ELSE <<>>]

\* self.key after _parse_fsp_packet(packet) when it was k before.
ParsedKey(k, packet) ==
    LET r == parse_fsp_packet(packet)
    IN  IF r.none THEN k ELSE IF r.key # 0 THEN r.key ELSE k

\* The header fields of a request as the wire carries them.
SentHeader(packet, who) ==
    [command |-> packet[1],
     key |-> UnpackH(Slice(packet, 2, 4)),
     sequence |-> UnpackH(Slice(packet, 4, 6)),
     position |-> UnpackI(Slice(packet, 8, 12)),
     init |-> session_initialized,   \* ghost: the flag when the packet was built
     latest_key |-> last_key,        \* ghost: last_key when the packet was built
     who |-> who]

----------------------------------------------------------------------------
(* The directory listing codec. *)

\* Offset of the NUL that ends the name starting at name_end (or Len(data)).
RECURSIVE NameEnd(_, _)
NameEnd(data, name_end) ==
    IF name_end < Len(data) /\ data[name_end + 1] # NUL
    THEN NameEnd(data, name_end + 1)
    ELSE name_end

TypeName(entry_type) ==
    IF entry_type = RDTYPE_FILE THEN "FILE"
    ELSE IF entry_type = RDTYPE_DIR THEN "DIR" ELSE "UNKNOWN"

\* The loop of _parse_directory_listing_with_end from `offset` on.
RECURSIVE ParseListingFrom(_, _, _)
ParseListingFrom(data, offset, entries) ==
    IF ~(offset + 9 < Len(data)) THEN [entries |-> entries, found_end |-> FALSE]
    ELSE LET timestamp == UnpackI(Slice(data, offset, offset + 4))
             size == UnpackI(Slice(data, offset + 4, offset + 8))
             entry_type == data[offset + 8 + 1]
             name_offset == offset + 9
             name_end == NameEnd(data, name_offset)
             name == Slice(data, name_offset, name_end)
             next == ((offset + 9 + (name_end - name_offset) + 1 + 3) \div 4) * 4
             type_name == TypeName(entry_type)
         IN  IF entry_type = RDTYPE_END
             THEN [entries |-> entries, found_end |-> TRUE]
             ELSE IF name = <<>> \/ type_name = "UNKNOWN"
             THEN ParseListingFrom(data, next, entries)
             ELSE ParseListingFrom(data, next,
                      Append(entries, [name |-> name, type |-> type_name,
                                       size |-> size, timestamp |-> timestamp,
                                       is_dir |-> (type_name = "DIR" \/ entry_type = 2)]))

parse_directory_listing_with_end(data) == ParseListingFrom(data, 0, <<>>)

----------------------------------------------------------------------------
(* The server (the environment): spec.md sections 3 and 6.  A directory is *)
(* a run of entries closed by the end-marker; a GET_DIR at position p is   *)
(* answered with the entries p, p+1, ... of that run, env.page of them;    *)
(* a GET_FILE at position p with the bytes p .. p+env.seg-1 of the file.   *)

EncodeEntry(e) ==
    LET body == PackI(e.timestamp) \o PackI(e.size) \o <<e.type>> \o e.name \o <<NUL>>
    IN  body \o Zeros((4 - (Len(body) % 4)) % 4)

RECURSIVE EncodeEntries(_)
EncodeEntries(es) ==
    IF es = <<>> THEN <<>> ELSE EncodeEntry(es[1]) \o EncodeEntries(Tail(es))

EndEntry == [timestamp |-> 0, size |-> 0, type |-> RDTYPE_END, name |-> <<>>]

\* The entries the server lists for a directory: closed by the end-marker,
\* unless the server (env.end_marker) sends none.
DirStream(raw) == IF env.end_marker THEN Append(raw, EndEntry) ELSE raw

ServerDirPayload(raw, position, page) ==
    EncodeEntries(Slice(DirStream(raw), position, position + page))

ServerFilePayload(bytes, position, seg) == Slice(bytes, position, position + seg)

ServerStatPayload(bytes, stat_len) ==
    LET body == PackI(0) \o PackI(Len(bytes)) \o <<RDTYPE_FILE>>
    IN  body \o Zeros(stat_len - Len(body))

ServerPacket(command, k, q, payload) ==
    <<command, 0>> \o PackH(k) \o PackH(q.sequence) \o PackH(Len(payload))
    \o PackI(q.position) \o payload

ErrMessage == <<69, 82, 82, 0>>

ErrBytes(k, q) == ServerPacket(CC_ERR, k, q, ErrMessage)

\* The server's answer to request q when it answers with key k.
OkBytes(k, q) ==
    CASE q.command = CC_GET_DIR ->
            IF q.path \in DOMAIN env.fs.dirs
            THEN ServerPacket(CC_GET_DIR, k, q,
                     ServerDirPayload(env.fs.dirs[q.path], q.position, env.page))
            ELSE ErrBytes(k, q)
      [] q.command = CC_GET_FILE ->
            IF q.path \in DOMAIN env.fs.files
            THEN ServerPacket(CC_GET_FILE, k, q,
                     ServerFilePayload(env.fs.files[q.path], q.position, env.seg))
            ELSE ErrBytes(k, q)
      [] q.command = CC_STAT ->
            IF q.path \in DOMAIN env.fs.files
            THEN ServerPacket(CC_STAT, k, q,
                     ServerStatPayload(env.fs.files[q.path], env.stat_len))
            ELSE ErrBytes(k, q)
      [] OTHER -> ServerPacket(q.command, k, q, <<>>)

\* What recvfrom may return for request q: an answer, or one of the failures
\* (no answer before the timeout, a datagram shorter than a header, the
\* server's error command) while the environment's failure budget lasts and
\* when the environment fails the requests of q's path.
Responses(q) ==
    {[kind |-> "ok", recv |-> TRUE, bytes |-> OkBytes(k, q)] : k \in env.keys}
    \cup (IF faults > 0 /\ (env.fault_scoped => q.path \in env.fault_paths)
          THEN {r \in {[kind |-> "timeout", recv |-> FALSE, bytes |-> <<>>],
                       [kind |-> "short", recv |-> TRUE, bytes |-> <<q.command, 0, 0>>]}
                      \cup {[kind |-> "err", recv |-> TRUE, bytes |-> ErrBytes(k, q)] :
                               k \in env.keys} :
                  r.kind \in env.fault_kinds}
          ELSE {})

FaultKinds == {"timeout", "short", "err"}

FaultsAfter(response) == IF response.kind = "ok" THEN faults ELSE faults - 1

\* Whether the datagram is a header carrying a key other than 0.
CarriesKey(response) ==
    /\ response.recv
    /\ Len(response.bytes) >= HEADER_LEN
    /\ UnpackH(Slice(response.bytes, 2, 4)) # 0

LastKeyAfter(response) ==
    IF CarriesKey(response) THEN UnpackH(Slice(response.bytes, 2, 4)) ELSE last_key

----------------------------------------------------------------------------
(* FSPClient: one request is a send step and a receive step. *)

NoOp == [name |-> "none", path |-> <<>>, position |-> 0, preferred_size |-> 0]

ListOp(path, position, preferred_size) ==
    [name |-> "list", path |-> path, position |-> position,
     preferred_size |-> preferred_size]
GetOp(path, position) ==
    [name |-> "get", path |-> path, position |-> position, preferred_size |-> 0]
StatOp(path) == [name |-> "stat", path |-> path, position |-> 0, preferred_size |-> 0]
CloseOp == [name |-> "close", path |-> <<>>, position |-> 0, preferred_size |-> 0]

\* A get_file that builds its packet without calling _init_session.
CallsInitSessionListOnly(name) == name \in {"list"}

\* Whether the operation calls _init_session before it builds its packet.
CallsInitSession(name) == name \in {"list", "get"}

\* An _init_session without its early return.
SendsHandshakeAlways(name) == CallsInitSession(name)

\* Whether the operation's _init_session sends a handshake: it returns at
\* once when the session is initialized.
SendsHandshake(name) == CallsInitSession(name) /\ ~session_initialized

Command(name) ==
    CASE name = "list" -> CC_GET_DIR
      [] name = "get" -> CC_GET_FILE
      [] name = "stat" -> CC_STAT
      [] name = "close" -> CC_BYE

Payload(o) ==
    CASE o.name = "list" -> o.path \o <<NUL>> \o PackH(o.preferred_size)
      [] o.name = "get" -> o.path \o <<NUL>>
      [] o.name = "stat" -> o.path \o <<NUL>>
      [] o.name = "close" -> <<>>

\* Python's truth value of the Optional[bytes] that send_udp_command returns.
Truthy(response) == response.recv /\ response.bytes # <<>>

NoEntries == [entries |-> <<>>, found_end |-> FALSE]

\* What list_directory returns once recvfrom returned `response`.
list_directory_result(response) ==
    IF ~Truthy(response) THEN NoEntries
    ELSE LET fsp_response == parse_fsp_packet(response.bytes)
         IN  IF fsp_response.none THEN NoEntries
             ELSE IF fsp_response.command = CC_ERR THEN NoEntries
             ELSE parse_directory_listing_with_end(fsp_response.data)

\* What get_file returns once recvfrom returned `response`.
get_file_result(response) ==
    IF ~Truthy(response) THEN None
    ELSE LET fsp_response == parse_fsp_packet(response.bytes)
         IN  IF fsp_response.none THEN None
             ELSE IF fsp_response.command = CC_ERR THEN None
             ELSE [none |-> FALSE, data |-> fsp_response.data]

\* What stat_file returns once recvfrom returned `response`.
stat_file_result(response) ==
    IF ~Truthy(response) THEN None
    ELSE LET fsp_response == parse_fsp_packet(response.bytes)
         IN  IF fsp_response.none THEN None
             ELSE IF fsp_response.command = CC_ERR THEN None
             ELSE LET data == fsp_response.data
                  IN  IF Len(data) >= 12
                      THEN [none |-> FALSE,
                            timestamp |-> UnpackI(Slice(data, 0, 4)),
                            size |-> UnpackI(Slice(data, 4, 8)),
                            type |-> TypeName(data[9])]
                      ELSE None

\* Operations that all return None when _init_session fails.
InitFailureNone(name) == None

\* The value an operation returns when _init_session fails.
InitFailure(name) == IF name = "list" THEN NoEntries ELSE None

\* Whether the operation hands the datagram to _parse_fsp_packet.
ParsesResponse(name) == name \in {"list", "get", "stat"}

\* self.key after the operation received `response`.
KeyAfter(name, response) ==
    IF ParsesResponse(name) /\ Truthy(response)
    THEN ParsedKey(key, response.bytes) ELSE key

Result(name, response) ==
    CASE name = "list" -> list_directory_result(response)
      [] name = "get" -> get_file_result(response)
      [] name = "stat" -> stat_file_result(response)
      [] name = "close" -> None

Request(who, command, o) ==
    [who |-> who, command |-> command, path |-> o.path, position |-> o.position,
     sequence |-> sequence]

MainReq == CHOOSE q \in inflight : q.who = "main"

\* The main flow runs only while no signal handler is on the stack.
MainRuns == hst = "idle"

\* _build_fsp_packet and sendto, for the main flow's request.
SendPacket(who, command, o, payload) ==
    LET packet == build_fsp_packet(command, o.position, payload)
    IN  /\ last_sent' = SentHeader(packet, who)
        /\ nsent' = nsent + 1
        /\ cmds' = cmds \cup {command}
        /\ sequence' = NextSequence(sequence)
        /\ inflight' = inflight \cup {Request(who, command, o)}

\* _init_session up to its sendto: the session is not initialized.
InitSessionSend ==
    /\ MainRuns
    /\ opst = "call"
    /\ SendsHandshake(op.name)
    /\ SendPacket("main", CC_VERSION, [op EXCEPT !.position = 0, !.path = <<>>], <<>>)
    /\ opst' = "hs_wait"
    /\ UNCHANGED <<key, session_initialized, op, ret, last_key, faults, sigVars, callerVars>>

\* _init_session from recvfrom on, and the caller's early return on failure.
InitSessionRecv ==
    /\ MainRuns
    /\ opst = "hs_wait"
    /\ \E response \in Responses(MainReq) :
          LET ok == Truthy(response) /\ ~parse_fsp_packet(response.bytes).none
          IN  /\ key' = IF Truthy(response) THEN ParsedKey(key, response.bytes) ELSE key
              /\ session_initialized' = IF ok THEN TRUE ELSE session_initialized
              /\ opst' = IF ok THEN "cmd" ELSE "ret"
              /\ ret' = IF ok THEN ret ELSE InitFailure(op.name)
              /\ last_key' = LastKeyAfter(response)
              /\ faults' = FaultsAfter(response)
    /\ inflight' = inflight \ {MainReq}
    /\ UNCHANGED <<sequence, last_sent, nsent, cmds, op, sigVars, callerVars>>

\* The operation builds its own packet and sends it.
CommandSend ==
    /\ MainRuns
    /\ \/ opst = "cmd"
       \/ opst = "call" /\ ~SendsHandshake(op.name)
    /\ SendPacket("main", Command(op.name), op, Payload(op))
    /\ opst' = "cmd_wait"
    /\ UNCHANGED <<key, session_initialized, op, ret, last_key, faults, sigVars, callerVars>>

\* recvfrom returns or times out; the operation returns to its caller.
CommandRecv ==
    /\ MainRuns
    /\ opst = "cmd_wait"
    /\ \E response \in Responses(MainReq) :
          /\ key' = KeyAfter(op.name, response)
          /\ ret' = Result(op.name, response)
          /\ last_key' = LastKeyAfter(response)
          /\ faults' = FaultsAfter(response)
    /\ opst' = "ret"
    /\ inflight' = inflight \ {MainReq}
    /\ UNCHANGED <<sequence, session_initialized, last_sent, nsent, cmds, op,
                   sigVars, callerVars>>

----------------------------------------------------------------------------
(* Spec: one client whose caller invokes the four operations in any order. *)

DirPath == <<69, 74, 48>>
FilePath == <<69, 74, 48, 47, 97>>

TinyFS ==
    [dirs |-> (DirPath :> <<[timestamp |-> 1, size |-> 3, type |-> RDTYPE_FILE,
                             name |-> <<97>>]>>),
     files |-> (FilePath :> <<7, 8, 9>>)]

NoPacket ==
    [command |-> 0, key |-> 0, sequence |-> 0, position |-> 0, init |-> FALSE,
     latest_key |-> 0, who |-> "none"]

\* The sequence counter wraps after 2^16 packets: the client is also started
\* from the state that 65534 unanswered farewells leave behind.
ClientBases == {0, TwoTo16 - 2}

ClientEnvs ==
    {[keys |-> {0, 1, 258}, fs |-> TinyFS, page |-> 2, seg |-> 2,
      stat_len |-> sl, end_marker |-> TRUE, base |-> b, page_size |-> 1024,
      fault_kinds |-> FaultKinds, fault_scoped |-> FALSE, fault_paths |-> {}] :
        sl \in {9, 12}, b \in ClientBases}

ClientOps ==
    {ListOp(DirPath, 0, 1024), GetOp(FilePath, 0), GetOp(FilePath, 2),
     StatOp(FilePath), CloseOp}

NoLoop ==
    [fn |-> "none", st |-> "none", path |-> <<>>, position |-> 0,
     all_entries |-> <<>>, result |-> <<>>, segment_size |-> 0]

\* save_file_from_fsp is not running (st = "none"); remote_path and data
\* are then what its latest call left behind.
NoSave == [st |-> "none", remote_path |-> <<>>, data |-> <<>>, saved |-> FALSE]

\* No function call is being examined.
NoCall == [fn |-> "none"]

\* main's locals before the run reaches them.
InitRunVars ==
    /\ stack = <<>>
    /\ started = FALSE
    /\ stats = [found |-> 0, skipped |-> 0, saved |-> 0]
    /\ current_idx = 0
    /\ prev_found = 0
    /\ medium_info = None
    /\ disk = <<>>
    /\ signalled = FALSE
    /\ aborted = -1
    /\ sv = NoSave
    /\ attempted = <<>>
    /\ walked = <<>>
    /\ pure = NoCall

\* FSPClient.__init__, after env.base packets that nobody answered.
InitClient ==
    /\ key = 0
    /\ sequence = env.base % TwoTo16
    /\ session_initialized = FALSE
    /\ last_sent = NoPacket
    /\ nsent = env.base
    /\ cmds = {}
    /\ inflight = {}
    /\ op = NoOp
    /\ opst = "none"
    /\ ret = None
    /\ last_key = 0
    /\ hst = "idle"

Init ==
    /\ env \in ClientEnvs
    /\ InitClient
    /\ faults = MaxFaults
    /\ signals = 0
    /\ pc = "client"
    /\ lp = NoLoop
    /\ InitRunVars

\* The caller invokes an operation.
Call ==
    /\ pc = "client"
    /\ opst = "none"
    /\ nsent - env.base < MaxPackets
    /\ \E o \in ClientOps : op' = o
    /\ opst' = "call"
    /\ UNCHANGED <<clientVars, wireVars, ret, sigVars, callerVars>>

\* The operation has returned to the caller.
Return ==
    /\ pc = "client"
    /\ opst = "ret"
    /\ opst' = "none"
    /\ UNCHANGED <<clientVars, wireVars, op, ret, sigVars, callerVars>>

Next ==
    \/ Call
    \/ InitSessionSend
    \/ InitSessionRecv
    \/ CommandSend
    \/ CommandRecv
    \/ Return

Spec == Init /\ [][Next]_vars

----------------------------------------------------------------------------
(* The two streaming loops. *)

DefaultSegmentSize == 128
DefaultPageSize == 4096

ReadLoop(path, segment_size) ==
    [fn |-> "read", st |-> "run", path |-> path, position |-> 0,
     all_entries |-> <<>>, result |-> <<>>, segment_size |-> segment_size]

PagedLoop(path) ==
    [fn |-> "paged", st |-> "run", path |-> path, position |-> 0,
     all_entries |-> <<>>, result |-> <<>>, segment_size |-> 0]

\* read_file_fsp: data = self.get_file(path, position)
ReadCall ==
    /\ MainRuns
    /\ lp.fn = "read" /\ lp.st = "run"
    /\ opst = "none"
    /\ op' = GetOp(lp.path, lp.position)
    /\ opst' = "call"
    /\ UNCHANGED <<clientVars, wireVars, ret, sigVars, callerVars>>

\* A loop that only an empty payload ends.
ReadStopsOnEmptyOnly(data, segment_size) == FALSE

\* read_file_fsp: whether a non-empty payload ends the loop.
ReadStops(data, segment_size) == Len(data) < segment_size

\* read_file_fsp: the rest of the loop body, and the return.
ReadStep ==
    /\ MainRuns
    /\ lp.fn = "read" /\ lp.st = "run"
    /\ opst = "ret"
    /\ IF ret.none \/ ret.data = <<>>
       THEN lp' = [lp EXCEPT !.st = "done"]
       ELSE IF ReadStops(ret.data, lp.segment_size)
       THEN lp' = [lp EXCEPT !.result = @ \o ret.data, !.st = "done"]
       ELSE lp' = [lp EXCEPT !.result = @ \o ret.data,
                             !.position = @ + Len(ret.data)]
    /\ opst' = "none"
    /\ UNCHANGED <<clientVars, wireVars, op, ret, sigVars, mainVars>>

\* list_directory_full_paged: entries, found_end = fsp.list_directory(...)
PagedCall ==
    /\ MainRuns
    /\ lp.fn = "paged" /\ lp.st = "run"
    /\ opst = "none"
    /\ op' = ListOp(lp.path, lp.position, env.page_size)
    /\ opst' = "call"
    /\ UNCHANGED <<clientVars, wireVars, ret, sigVars, callerVars>>

\* A position that stays where it is.
PagedAdvanceNone(position, entries) == position

\* A position that moves on by one for each page.
PagedAdvanceByOne(position, entries) == position + 1

\* list_directory_full_paged: position += len(entries)
PagedAdvance(position, entries) == position + Len(entries)

\* list_directory_full_paged: the rest of the loop body, and the return.
PagedStep ==
    /\ MainRuns
    /\ lp.fn = "paged" /\ lp.st = "run"
    /\ opst = "ret"
    /\ IF ret.entries = <<>>
       THEN lp' = [lp EXCEPT !.st = "done"]
       ELSE IF ret.found_end
       THEN lp' = [lp EXCEPT !.all_entries = @ \o ret.entries, !.st = "done"]
       ELSE lp' = [lp EXCEPT !.all_entries = @ \o ret.entries,
                             !.position = PagedAdvance(@, ret.entries)]
    /\ opst' = "none"
    /\ UNCHANGED <<clientVars, wireVars, op, ret, sigVars, mainVars>>

----------------------------------------------------------------------------
(* SpecPage: list_directory_full_paged on one directory of up to MaxDirLen *)
(* entries, served env.page entries at a time.  An entry is a file, a      *)
(* directory, an entry of unknown type or an entry without a name.         *)

DocRoot == <<69, 74, 48, 47, 68, 79, 67>>

EntryKinds == {"file", "dir", "unknown", "noname"}

\* The i-th entry of a directory, of the given kind; its name is one letter.
RawEntry(i, kind) ==
    [timestamp |-> i, size |-> i,
     type |-> CASE kind = "file" -> RDTYPE_FILE
                [] kind = "dir" -> RDTYPE_DIR
                [] kind = "unknown" -> 3
                [] kind = "noname" -> RDTYPE_FILE,
     name |-> IF kind = "noname" THEN <<>> ELSE <<96 + i>>]

RawDirs ==
    UNION {{[i \in 1..n |-> RawEntry(i, kinds[i])] : kinds \in [1..n -> EntryKinds]} :
              n \in 0..MaxDirLen}

\* A directory of 57 files that the server lists 40 entries at a time: two
\* pages, of 40 entries and of 17 entries and the end-marker.
LongDirLen == 57
LongDir ==
    [i \in 1..LongDirLen |-> [timestamp |-> i, size |-> i, type |-> RDTYPE_FILE,
                       name |-> <<65 + (i \div 26), 97 + (i % 26)>>]]
LongDirPage == 40

PageEnv(raw, pg) ==
    [keys |-> {258}, fs |-> [dirs |-> (DocRoot :> raw), files |-> <<>>],
     page |-> pg, seg |-> DefaultSegmentSize, stat_len |-> 12, end_marker |-> TRUE, base |-> 0,
     page_size |-> DefaultPageSize, fault_kinds |-> FaultKinds, fault_scoped |-> FALSE,
     fault_paths |-> {}]

PageEnvs ==
    {PageEnv(raw, pg) : raw \in RawDirs, pg \in 1..MaxPage}
    \cup {PageEnv(LongDir, LongDirPage)}

InitPage ==
    /\ env \in PageEnvs
    /\ InitClient
    /\ faults = PageFaults
    /\ signals = 0
    /\ pc = "paged"
    /\ lp = PagedLoop(DocRoot)
    /\ InitRunVars

NextPage ==
    \/ PagedCall
    \/ PagedStep
    \/ InitSessionSend
    \/ InitSessionRecv
    \/ CommandSend
    \/ CommandRecv

SpecPage == InitPage /\ [][NextPage]_vars

\* What one listing of the whole directory decodes to.
FullListing(raw) ==
    parse_directory_listing_with_end(EncodeEntries(DirStream(raw))).entries

\* C1 (as claimed): when list_directory_full_paged has finished and every
\* request was answered, the accumulated entries are those of one unbounded
\* listing of the directory, in order, none twice and none missing.
C1_PagedEqualsFull ==
    (lp.fn = "paged" /\ lp.st = "done" /\ faults = PageFaults) =>
        lp.all_entries = FullListing(env.fs.dirs[lp.path])

----------------------------------------------------------------------------
(* SpecRead: read_file_fsp on one file of up to MaxFileLen bytes that the  *)
(* server hands out env.seg bytes at a time.                               *)

ReadPath == <<69, 74, 48, 47, 97>>

SegSizes == {64, 128, 200}

\* A file whose bytes tell their offsets apart.
FileBytes(L) == [i \in 1..L |-> (i * 7) % 251]

ReadEnvs ==
    {[keys |-> {258}, fs |-> [dirs |-> <<>>, files |-> (ReadPath :> FileBytes(L))],
      page |-> 1, seg |-> sg, stat_len |-> 12, end_marker |-> TRUE, base |-> 0,
      page_size |-> DefaultPageSize, fault_kinds |-> FaultKinds, fault_scoped |-> FALSE, fault_paths |-> {}] : L \in 0..MaxFileLen, sg \in SegSizes}

InitRead ==
    /\ env \in ReadEnvs
    /\ InitClient
    /\ faults = ReadFaults
    /\ signals = 0
    /\ pc = "read"
    /\ lp = ReadLoop(ReadPath, DefaultSegmentSize)
    /\ InitRunVars

NextRead ==
    \/ ReadCall
    \/ ReadStep
    \/ InitSessionSend
    \/ InitSessionRecv
    \/ CommandSend
    \/ CommandRecv

SpecRead == InitRead /\ [][NextRead]_vars

\* C2 (as claimed): for a file of any length and a server of any fixed
\* segment length, when every request was answered read_file_fsp returns
\* the whole file.
C2_ReadReturnsWholeFile ==
    (lp.fn = "read" /\ lp.st = "done" /\ faults = ReadFaults) =>
        lp.result = env.fs.files[lp.path]

----------------------------------------------------------------------------
(* The session claims, under Spec. *)

Sent == last_sent.who # "none"

\* C4 (as claimed): the client's key is the key of the latest well-formed
\* response whose key is not 0 (0 when there was none), and every request
\* carries that key.
C4_KeyFollowsResponses ==
    /\ key = last_key
    /\ Sent => last_sent.key = last_sent.latest_key

\* C5 (as claimed): no packet other than the handshake is sent by a client
\* whose initialized flag is false.
C5_NoCommandBeforeHandshake ==
    (Sent /\ last_sent.command # CC_VERSION) => last_sent.init

\* C5 (amended): no list-directory or get-file packet is sent by a client
\* whose initialized flag is false, and an uninitialized client that enters
\* one of these two operations sends the handshake before anything else.
C5_ListGetAfterHandshake ==
    /\ (Sent /\ last_sent.command \in {CC_GET_DIR, CC_GET_FILE}) => last_sent.init
    /\ (opst \in {"hs_wait"}) => last_sent.command = CC_VERSION

\* A get_file on a fresh client has sent the handshake and then its own packet.
C5_Witness ==
    /\ opst = "cmd_wait"
    /\ op.name = "get"
    /\ nsent = env.base + 2
    /\ last_sent.command = CC_GET_FILE

\* C6: every packet carries the sequence the client held when it was built,
\* and building it advances the sequence by one modulo 2^16, whatever
\* becomes of the request: the k-th packet carries (k-1) mod 2^16.
C6_SequenceAdvances ==
    /\ sequence = nsent % TwoTo16
    /\ Sent => last_sent.sequence = (nsent - 1) % TwoTo16

\* The packet after the one with sequence 65535 has been sent, after a failure.
C6_Witness ==
    /\ Sent
    /\ nsent = TwoTo16 + 1
    /\ last_sent.sequence = 0
    /\ faults < MaxFaults

\* C7: a handshake that got a well-formed response leaves the sequence one
\* above (modulo 2^16) the value the handshake packet was built from and
\* the session initialized; the flag never goes back to false, and an
\* initialized client sends no further handshake packet.
C7_HandshakeOnce ==
    [][ /\ (opst = "hs_wait" /\ opst' = "cmd") =>
              /\ session_initialized'
              /\ sequence' = (last_sent.sequence + 1) % TwoTo16
        /\ session_initialized => session_initialized'
        /\ (session_initialized /\ nsent' # nsent) => last_sent'.command # CC_VERSION
      ]_vars

\* An initialized client enters another list_directory or get_file.
C7_Witness ==
    /\ session_initialized
    /\ opst = "call"
    /\ CallsInitSession(op.name)
    /\ CC_VERSION \in cmds

----------------------------------------------------------------------------
(* Strings of main.py and storage.py.  The names of the modelled archives  *)
(* are made of ASCII letters, digits and dots.                             *)

SLASH == 47
DOT == 46
DotBIN == <<46, 66, 73, 78>>
DotSIG == <<46, 83, 73, 71>>
MediumPath == <<69, 74, 48, 47, 109, 101, 100, 105, 117, 109, 46, 100, 97, 116>>
KeyDerPath == <<69, 74, 48, 47, 75, 69, 89, 46, 68, 69, 82>>
StartDir == <<69, 74, 48>>

\* str.upper()
Upper(s) == [i \in 1..Len(s) |-> IF s[i] \in 97..122 THEN s[i] - 32 ELSE s[i]]

\* str.endswith(suffix) and str.startswith(prefix)
EndsWith(s, suffix) ==
    Len(s) >= Len(suffix) /\ SubSeq(s, Len(s) - Len(suffix) + 1, Len(s)) = suffix
StartsWith(s, prefix) ==
    Len(s) >= Len(prefix) /\ SubSeq(s, 1, Len(prefix)) = prefix

\* str.split(sep): `cur` is the part being read.
RECURSIVE SplitFrom(_, _, _)
SplitFrom(s, sep, cur) ==
    IF s = <<>> THEN <<cur>>
    ELSE IF s[1] = sep THEN <<cur>> \o SplitFrom(Tail(s), sep, <<>>)
    ELSE SplitFrom(Tail(s), sep, Append(cur, s[1]))

Split(s, sep) == SplitFrom(s, sep, <<>>)

\* str.strip('/')
RECURSIVE StripSlash(_)
StripSlash(s) ==
    IF s # <<>> /\ s[1] = SLASH THEN StripSlash(Tail(s))
    ELSE IF s # <<>> /\ s[Len(s)] = SLASH THEN StripSlash(SubSeq(s, 1, Len(s) - 1))
    ELSE s

IsDigits(s) == s # <<>> /\ \A i \in 1..Len(s) : s[i] \in 48..57

RECURSIVE DigitsValue(_)
DigitsValue(s) ==
    IF s = <<>> THEN 0
    ELSE DigitsValue(SubSeq(s, 1, Len(s) - 1)) * 10 + (s[Len(s)] - 48)

\* int(s) for a string of letters, digits and dots: a value, or ValueError.
IntOf(s) ==
    IF IsDigits(s) THEN [ok |-> TRUE, val |-> DigitsValue(s)]
    ELSE [ok |-> FALSE, val |-> 0]

\* f"{n}" and f"{n:02d}" for n >= 0
RECURSIVE DecStr(_)
DecStr(n) == IF n < 10 THEN <<48 + n>> ELSE DecStr(n \div 10) \o <<48 + (n % 10)>>
Format02d(n) == IF n < 10 THEN <<48>> \o DecStr(n) ELSE DecStr(n)

\* f"{path}/{name}"
JoinPath(path, name) == path \o <<SLASH>> \o name

----------------------------------------------------------------------------
(* medium.dat *)

MEDIUM_SIZE == 54

\* bytes.decode('ascii', errors='ignore')
AsciiIgnore(b) == SelectSeq(b, LAMBDA x : x < 128)

\* str.rstrip('\x00')
RECURSIVE RStripNul(_)
RStripNul(s) ==
    IF s # <<>> /\ s[Len(s)] = NUL THEN RStripNul(SubSeq(s, 1, Len(s) - 1)) ELSE s

\* parse_medium_dat: the device prefix is the 14 bytes at offset 10 of the
\* structure '>HLL14sL14s10sH'; a short file raises ValueError (None here).
parse_medium_dat(data) ==
    IF Len(data) < MEDIUM_SIZE THEN None
    ELSE [none |-> FALSE,
          prefix_nr_urzadzenia |-> RStripNul(AsciiIgnore(Slice(data, 10, 24)))]

\* print_medium_dat_info, given what read_file_fsp returned.
print_medium_dat_info(data) ==
    IF data = <<>> THEN None ELSE parse_medium_dat(data)

\* A run that goes on without a device prefix.
AbortsNever(info) == FALSE

\* main: whether the run aborts after reading medium.dat.
Aborts(info) == info.none \/ info.prefix_nr_urzadzenia = <<>>

----------------------------------------------------------------------------
(* The start index and the filters of gather_and_print. *)

\* main: the directory DOC/A/BB/CC of document idx, as numbers and as a path.
StartParts(idx) == <<idx \div 1000000, (idx \div 10000) % 100, (idx \div 100) % 100>>

SubPath(idx) ==
    DecStr(StartParts(idx)[1]) \o <<SLASH>> \o Format02d(StartParts(idx)[2])
    \o <<SLASH>> \o Format02d(StartParts(idx)[3])

\* gather_and_print: path relative to doc_root, split at '/'.
RelParts(path, doc_root) ==
    IF path = doc_root THEN <<>>
    ELSE IF StartsWith(path, doc_root \o <<SLASH>>)
    THEN LET rel == SliceFrom(path, Len(doc_root) + 1)
         IN  IF rel # <<>> THEN Split(rel, SLASH) ELSE <<>>
    ELSE <<>>

\* gather_and_print: the numbers (A, BB, CC) of a subdirectory, -1 where the
\* path has no part or the part is no number.
Comp(path, name, doc_root) ==
    LET prospective == Append(RelParts(path, doc_root), name)
    IN  [i \in 1..3 |->
            IF i <= Len(prospective)
            THEN IF IntOf(prospective[i]).ok THEN IntOf(prospective[i]).val ELSE -1
            ELSE -1]

\* gather_and_print: the lexicographic comparison with start_parts; "skip",
\* "after" (sets started) or "equal".
RECURSIVE CompareFrom(_, _, _)
CompareFrom(comp, start_parts, i) ==
    IF i > 3 THEN "equal"
    ELSE IF comp[i] < start_parts[i] THEN "skip"
    ELSE IF comp[i] > start_parts[i] THEN "after"
    ELSE CompareFrom(comp, start_parts, i + 1)

\* A file filter that lets every file through.
SkipsFileNever(name, has_start, start_idx) == FALSE

\* gather_and_print: whether the start index filters the file out.
SkipsFile(name, has_start, start_idx) ==
    /\ has_start
    /\ IntOf(Split(name, DOT)[1]).ok
    /\ IntOf(Split(name, DOT)[1]).val < start_idx

\* gather_and_print: whether the file's name passes the extension filter.
WantedName(name) ==
    /\ name # <<>>
    /\ (EndsWith(Upper(name), DotBIN) \/ EndsWith(Upper(name), DotSIG))

\* gather_and_print: ext == 'BIN', with os.path.splitext giving no
\* extension to a name that is nothing but the dotted suffix.
IsBin(name) == EndsWith(Upper(name), DotBIN) /\ Len(name) > Len(DotBIN)

----------------------------------------------------------------------------
(* The archive on the server: a tree of directories and files. *)

FileNode(name, data) ==
    [name |-> name, type |-> RDTYPE_FILE, is_dir |-> FALSE, kids |-> <<>>, data |-> data]
DirNode(name, kids) ==
    [name |-> name, type |-> RDTYPE_DIR, is_dir |-> TRUE, kids |-> kids, data |-> <<>>]
\* An entry whose type is neither file nor directory.
OtherNode(name) ==
    [name |-> name, type |-> 3, is_dir |-> FALSE, kids |-> <<>>, data |-> <<>>]

\* The directory entry the server lists for a node.
RawOf(node) ==
    [timestamp |-> 1, size |-> Len(node.data),
     type |-> node.type, name |-> node.name]

RECURSIVE DirsOf(_, _)
RECURSIVE DirsOfKids(_, _, _)
\* The directories of the tree rooted at `path`: path -> entries.
DirsOf(path, kids) ==
    (path :> [i \in 1..Len(kids) |-> RawOf(kids[i])]) @@ DirsOfKids(path, kids, 1)

DirsOfKids(path, kids, i) ==
    IF i > Len(kids) THEN <<>>
    ELSE (IF kids[i].is_dir THEN DirsOf(JoinPath(path, kids[i].name), kids[i].kids)
          ELSE <<>>) @@ DirsOfKids(path, kids, i + 1)

RECURSIVE FilesOf(_, _, _)
\* The files of the tree rooted at `path`: path -> bytes.
FilesOf(path, kids, i) ==
    IF i > Len(kids) THEN <<>>
    ELSE (IF kids[i].is_dir
          THEN FilesOf(JoinPath(path, kids[i].name), kids[i].kids, 1)
          ELSE (JoinPath(path, kids[i].name) :> kids[i].data))
         @@ FilesOf(path, kids, i + 1)

\* The name NNNNNNNN.ext of document n.
DocName(n, ext) == [i \in 1..(8 - Len(DecStr(n))) |-> 48] \o DecStr(n) \o ext

\* A BIN record of type 0x44 (document type 1), and a signature.
BinBytes == <<0, 0, 0, 68, 0, 7, 1>>
SigBytes == <<5, 6>>

\* EJ0/DOC of the modelled printer: documents 45..201 in three CC
\* directories, one of them (99) filed in the directory of 100..199, one
\* empty file, one file that is neither BIN nor SIG, and one subdirectory.
DocTree ==
    <<DirNode(<<48>>,
        <<DirNode(<<48, 48>>,
            <<DirNode(<<48, 48>>,
                <<FileNode(DocName(45, DotBIN), BinBytes),
                  FileNode(DocName(46, DotSIG), SigBytes)>>),
              DirNode(<<48, 49>>,
                <<FileNode(DocName(99, DotBIN), BinBytes),
                  FileNode(DocName(101, DotBIN), <<>>),
                  FileNode(<<97, 46, 116, 120, 116>>, SigBytes),
                  DirNode(<<120>>, <<>>)>>),
              DirNode(<<48, 50>>,
                <<FileNode(DocName(201, <<46, 115, 105, 103>>), SigBytes)>>)>>)>>)>>

\* EJ0/DOC of a printer that lists an entry of another type before a
\* directory and a file.
MixedTree ==
    <<OtherNode(<<117>>),
      DirNode(<<48>>, <<FileNode(DocName(1, DotSIG), SigBytes)>>),
      FileNode(DocName(2, DotSIG), SigBytes)>>

\* EJ0/DOC of a printer with files named a.BIN, 00000007.bin, b.sig and
\* a.txt and a directory that holds c.Bin.
NamesTree ==
    <<FileNode(<<97>> \o DotBIN, SigBytes),
      FileNode(DocName(7, <<46, 98, 105, 110>>), BinBytes),
      FileNode(<<98, 46, 115, 105, 103>>, SigBytes),
      FileNode(<<97, 46, 116, 120, 116>>, SigBytes),
      DirNode(<<57>>, <<FileNode(<<99, 46, 66, 105, 110>>, SigBytes)>>)>>

MediumKinds == {"ok", "noprefix", "nonascii", "short", "empty", "missing"}

\* medium.dat with the given bytes in the device-prefix field.
MediumBytes(prefix_field) == Zeros(10) \o prefix_field \o Zeros(30)

MediumFile(kind) ==
    CASE kind = "ok" -> (MediumPath :> MediumBytes(<<65, 66>> \o Zeros(12)))
      [] kind = "noprefix" -> (MediumPath :> MediumBytes(Zeros(14)))
      [] kind = "nonascii" -> (MediumPath :> MediumBytes(<<200>> \o Zeros(13)))
      [] kind = "short" -> (MediumPath :> Zeros(20))
      [] kind = "empty" -> (MediumPath :> <<>>)
      [] kind = "missing" -> <<>>

RunFS(kind, tree) ==
    [dirs |-> DirsOf(DocRoot, tree),
     files |-> MediumFile(kind) @@ (KeyDerPath :> <<48, 1>>)
               @@ FilesOf(DocRoot, tree, 1)]

----------------------------------------------------------------------------
(* main(): the retrieval run.  The environment fails any request, or only  *)
(* the requests for the files of EJ0/DOC (env.fault_scoped).               *)

MaxSignals == 1
RunFaults == 1

StartIndexes == {46, 47, 101}

\* The runs over DocTree, every directory of which fits into one page, one
\* run over MixedTree served two entries per page, one run over NamesTree,
\* and one run over NamesTree served two entries per page by a server that
\* sends no end-marker.
RunEnvs ==
    {[keys |-> {258}, fs |-> RunFS(kind, DocTree), page |-> 8,
      seg |-> DefaultSegmentSize,
      stat_len |-> 12, end_marker |-> TRUE, base |-> 0, page_size |-> DefaultPageSize,
      fault_kinds |-> {"timeout", "err", "write"},
      fault_scoped |-> sc, fault_paths |-> DOMAIN FilesOf(DocRoot, DocTree, 1),
      medium |-> kind, tree |-> DocTree, paged |-> FALSE,
      has_start |-> hs, start_index |-> IF hs THEN n ELSE 0] :
        kind \in MediumKinds, hs \in BOOLEAN, n \in StartIndexes, sc \in BOOLEAN}
    \cup
    {[keys |-> {258}, fs |-> RunFS("ok", MixedTree), page |-> 2,
      seg |-> DefaultSegmentSize,
      stat_len |-> 12, end_marker |-> TRUE, base |-> 0, page_size |-> DefaultPageSize,
      fault_kinds |-> {"timeout", "err", "write"},
      fault_scoped |-> FALSE, fault_paths |-> {},
      medium |-> "ok", tree |-> MixedTree, paged |-> TRUE,
      has_start |-> FALSE, start_index |-> 0]}
    \cup
    {[keys |-> {258}, fs |-> RunFS("ok", NamesTree), page |-> 8,
      seg |-> DefaultSegmentSize,
      stat_len |-> 12, end_marker |-> TRUE, base |-> 0, page_size |-> DefaultPageSize,
      fault_kinds |-> {"timeout", "err", "write"},
      fault_scoped |-> FALSE, fault_paths |-> {},
      medium |-> "ok", tree |-> NamesTree, paged |-> FALSE,
      has_start |-> FALSE, start_index |-> 0],
     [keys |-> {258}, fs |-> RunFS("ok", NamesTree), page |-> 2,
      seg |-> DefaultSegmentSize,
      stat_len |-> 12, end_marker |-> FALSE, base |-> 0,
      page_size |-> DefaultPageSize,
      fault_kinds |-> {"timeout", "err", "write"},
      fault_scoped |-> FALSE, fault_paths |-> {},
      medium |-> "ok", tree |-> NamesTree, paged |-> TRUE,
      has_start |-> FALSE, start_index |-> 0]}

InitRun ==
    /\ env \in RunEnvs
    /\ InitClient
    /\ faults = RunFaults
    /\ signals = MaxSignals
    /\ pc = "start"
    /\ lp = NoLoop
    /\ InitRunVars

\* A call of gather_and_print(path) that has not listed its directory yet.
Frame(path) == [path |-> path, entries |-> <<>>, i |-> 1, st |-> "listing"]
Top == stack[Len(stack)]
SetTop(f) == [stack EXCEPT ![Len(stack)] = f]

\* main: the close() before anything else.
StartClose ==
    /\ MainRuns
    /\ pc = "start"
    /\ op' = CloseOp
    /\ opst' = "call"
    /\ pc' = "start_close"
    /\ UNCHANGED <<clientVars, wireVars, ret, sigVars, lp, env, runVars>>

\* main: medium_info = print_medium_dat_info(...), up to its read_file_fsp.
StartCloseRet ==
    /\ MainRuns
    /\ pc = "start_close" /\ opst = "ret"
    /\ opst' = "none"
    /\ lp' = ReadLoop(MediumPath, DefaultSegmentSize)
    /\ pc' = "medium"
    /\ UNCHANGED <<clientVars, wireVars, op, ret, sigVars, env, runVars>>

\* print_medium_dat_info returns; print_key_der_info up to its read_file_fsp.
MediumRet ==
    /\ MainRuns
    /\ pc = "medium" /\ lp.fn = "read" /\ lp.st = "done"
    /\ medium_info' = print_medium_dat_info(lp.result)
    /\ lp' = ReadLoop(KeyDerPath, DefaultSegmentSize)
    /\ pc' = "keyder"
    /\ UNCHANGED <<clientVars, wireVars, opVars, sigVars, env, stack, started, stats,
                   current_idx, prev_found, disk, signalled, aborted, auxVars>>

\* print_key_der_info returns; main checks medium_info and its prefix.
KeyDerRet ==
    /\ MainRuns
    /\ pc = "keyder" /\ lp.fn = "read" /\ lp.st = "done"
    /\ lp' = NoLoop
    /\ IF Aborts(medium_info)
       THEN /\ pc' = "abort"
            /\ aborted' = nsent
            /\ UNCHANGED current_idx
       ELSE /\ pc' = IF env.has_start THEN "loop_top" ELSE "walk"
            /\ current_idx' = IF env.has_start THEN env.start_index ELSE current_idx
            /\ UNCHANGED aborted
    /\ UNCHANGED <<clientVars, wireVars, opVars, sigVars, env, stack, started, stats,
                   prev_found, medium_info, disk, signalled, auxVars>>

\* main: the close() of the two aborting branches, and the return.
AbortClose ==
    /\ MainRuns
    /\ pc = "abort"
    /\ op' = CloseOp
    /\ opst' = "call"
    /\ pc' = "abort_close"
    /\ UNCHANGED <<clientVars, wireVars, ret, sigVars, lp, env, runVars>>

AbortCloseRet ==
    /\ MainRuns
    /\ pc = "abort_close" /\ opst = "ret"
    /\ opst' = "none"
    /\ pc' = "done"
    /\ UNCHANGED <<clientVars, wireVars, op, ret, sigVars, lp, env, runVars>>

\* main, with a start index: one turn of `while True` up to gather_and_print.
LoopTop ==
    /\ MainRuns
    /\ pc = "loop_top"
    /\ prev_found' = stats.found
    /\ stack' = <<Frame(JoinPath(DocRoot, SubPath(current_idx)))>>
    /\ lp' = PagedLoop(JoinPath(DocRoot, SubPath(current_idx)))
    /\ pc' = "loop_body"
    /\ walked' = Append(walked, JoinPath(DocRoot, SubPath(current_idx)))
    /\ UNCHANGED <<clientVars, wireVars, opVars, sigVars, env, started, stats,
                   current_idx, medium_info, disk, signalled, aborted, sv, attempted,
                   pure>>

\* main: gather_and_print(target) returned; stop when it found no file.
LoopCheck ==
    /\ MainRuns
    /\ pc = "loop_body" /\ stack = <<>>
    /\ IF stats.found = prev_found
       THEN pc' = "final" /\ UNCHANGED current_idx
       ELSE pc' = "loop_top" /\ current_idx' = current_idx + 100
    /\ UNCHANGED <<clientVars, wireVars, opVars, sigVars, lp, env, stack, started,
                   stats, prev_found, medium_info, disk, signalled, aborted, auxVars>>

\* main, without a start index: gather_and_print(doc_root).
WalkRoot ==
    /\ MainRuns
    /\ pc = "walk"
    /\ stack' = <<Frame(DocRoot)>>
    /\ lp' = PagedLoop(DocRoot)
    /\ pc' = "walk_body"
    /\ walked' = Append(walked, DocRoot)
    /\ UNCHANGED <<clientVars, wireVars, opVars, sigVars, env, started, stats,
                   current_idx, prev_found, medium_info, disk, signalled, aborted, sv,
                   attempted, pure>>

WalkDone ==
    /\ MainRuns
    /\ pc = "walk_body" /\ stack = <<>>
    /\ pc' = "final"
    /\ UNCHANGED <<clientVars, wireVars, opVars, sigVars, lp, env, runVars>>

\* main: the close() of the finally clause, and the return.
FinalClose ==
    /\ MainRuns
    /\ pc = "final"
    /\ op' = CloseOp
    /\ opst' = "call"
    /\ pc' = "final_close"
    /\ UNCHANGED <<clientVars, wireVars, ret, sigVars, lp, env, runVars>>

FinalCloseRet ==
    /\ MainRuns
    /\ pc = "final_close" /\ opst = "ret"
    /\ opst' = "none"
    /\ pc' = "done"
    /\ UNCHANGED <<clientVars, wireVars, op, ret, sigVars, lp, env, runVars>>

\* storage.py: the suffixes of the temporary file and of the sidecar.
TmpSuffix == <<46, 116, 109, 112>>
MetaSuffix == <<46, 109, 101, 116, 97, 46, 106, 115, 111, 110>>

\* save_file_from_fsp: target_path, relative to <local_root>/<nr>/<prefix>.
TargetPath(remote_path) == StripSlash(remote_path)

\* A save that writes the bytes straight into the target path.
WritePathDirect(target_path) == target_path

\* save_file_from_fsp: the path the bytes are written to.
WritePath(target_path) == target_path \o TmpSuffix

\* The local storage without one path.
Without(d, path) == [q \in DOMAIN d \ {path} |-> d[q]]

\* What a write that fails on the way leaves in the file.
PartialWrite(data) == SubSeq(data, 1, Len(data) \div 2)

\* A run that counts a file as found only when it was saved.
FoundAfterSavedOnly(found, saved) == IF saved THEN found + 1 ELSE found

\* gather_and_print: stats['found'] += 1, saved or not.
FoundAfter(found, saved) == found + 1

\* The caller invokes save_file_from_fsp, which runs up to read_file_fsp.
StartSave(remote_path) ==
    /\ sv' = [st |-> "read", remote_path |-> remote_path, data |-> <<>>,
              saved |-> FALSE]
    /\ attempted' = Append(attempted, remote_path)
    /\ lp' = ReadLoop(remote_path, DefaultSegmentSize)

\* save_file_from_fsp: read_file_fsp returned; `if not data: return None`,
\* else open(tmp_path, 'wb').
SaveFetched ==
    /\ MainRuns
    /\ sv.st = "read"
    /\ lp.fn = "read" /\ lp.st = "done"
    /\ IF lp.result = <<>>
       THEN /\ sv' = [sv EXCEPT !.st = "ret"]
            /\ UNCHANGED disk
       ELSE /\ sv' = [sv EXCEPT !.st = "opened", !.data = lp.result]
            /\ disk' = (WritePath(TargetPath(sv.remote_path)) :> <<>>) @@ disk
    /\ lp' = NoLoop
    /\ UNCHANGED <<clientVars, wireVars, opVars, sigVars, pc, env, stack, started,
                   stats, current_idx, prev_found, medium_info, signalled, aborted,
                   attempted, walked, pure>>

\* save_file_from_fsp: fh.write(data); a write that fails leaves a part of
\* the bytes in the file and raises, and the function returns None.
SaveWrite ==
    /\ MainRuns
    /\ sv.st = "opened"
    /\ \/ /\ disk' = (WritePath(TargetPath(sv.remote_path)) :> sv.data) @@ disk
          /\ sv' = [sv EXCEPT !.st = "written"]
          /\ UNCHANGED faults
       \/ /\ faults > 0
          /\ "write" \in env.fault_kinds
          /\ disk' = (WritePath(TargetPath(sv.remote_path)) :> PartialWrite(sv.data))
                     @@ disk
          /\ sv' = [sv EXCEPT !.st = "ret"]
          /\ faults' = faults - 1
    /\ UNCHANGED <<clientVars, last_sent, nsent, cmds, inflight, last_key, opVars,
                   sigVars, pc, lp, env, stack, started, stats, current_idx,
                   prev_found, medium_info, signalled, aborted, attempted, walked,
                   pure>>

\* save_file_from_fsp: os.replace(tmp_path, target_path).
SaveReplace ==
    /\ MainRuns
    /\ sv.st = "written"
    /\ LET target_path == TargetPath(sv.remote_path)
           tmp_path == WritePath(target_path)
       IN  disk' = (target_path :> disk[tmp_path]) @@ Without(disk, tmp_path)
    /\ sv' = [sv EXCEPT !.st = "replaced"]
    /\ UNCHANGED <<clientVars, wireVars, opVars, sigVars, pc, lp, env, stack, started,
                   stats, current_idx, prev_found, medium_info, signalled, aborted,
                   attempted, walked, pure>>

\* save_file_from_fsp: the sidecar is written (its digest and its time are
\* left out) and the function returns the metadata.
SaveMeta ==
    /\ MainRuns
    /\ sv.st = "replaced"
    /\ LET target_path == TargetPath(sv.remote_path)
       IN  disk' = (target_path \o MetaSuffix :>
                       [original_path |-> sv.remote_path, saved_path |-> target_path,
                        size |-> Len(sv.data)]) @@ disk
    /\ sv' = [sv EXCEPT !.st = "ret", !.saved = TRUE]
    /\ UNCHANGED <<clientVars, wireVars, opVars, sigVars, pc, lp, env, stack, started,
                   stats, current_idx, prev_found, medium_info, signalled, aborted,
                   attempted, walked, pure>>

\* gather_and_print: list_directory_full_paged returned the entries.
GatherListed ==
    /\ MainRuns
    /\ stack # <<>> /\ Top.st = "listing"
    /\ lp.fn = "paged" /\ lp.st = "done"
    /\ stack' = SetTop([Top EXCEPT !.entries = lp.all_entries, !.st = "iter"])
    /\ lp' = NoLoop
    /\ UNCHANGED <<clientVars, wireVars, opVars, sigVars, pc, env, started, stats,
                   current_idx, prev_found, medium_info, disk, signalled, aborted, auxVars>>

\* gather_and_print: the loop body for a directory entry.
GatherDir ==
    /\ MainRuns
    /\ stack # <<>> /\ Top.st = "iter" /\ Top.i <= Len(Top.entries)
    /\ Top.entries[Top.i].is_dir
    /\ LET name == Top.entries[Top.i].name
           cmp == IF env.has_start /\ ~started
                  THEN CompareFrom(Comp(Top.path, name, DocRoot),
                                   StartParts(env.start_index), 1)
                  ELSE "equal"
       IN  /\ started' = (started \/ cmp = "after")
           /\ IF cmp = "skip"
              THEN /\ stack' = SetTop([Top EXCEPT !.i = @ + 1])
                   /\ UNCHANGED <<lp, walked>>
              ELSE /\ stack' = Append(SetTop([Top EXCEPT !.i = @ + 1]),
                                      Frame(JoinPath(Top.path, name)))
                   /\ lp' = PagedLoop(JoinPath(Top.path, name))
                   /\ walked' = Append(walked, JoinPath(Top.path, name))
    /\ UNCHANGED <<clientVars, wireVars, opVars, sigVars, pc, env, stats,
                   current_idx, prev_found, medium_info, disk, signalled, aborted, sv,
                   attempted, pure>>

\* gather_and_print: the loop body for a file entry, up to the first request.
GatherFile ==
    /\ MainRuns
    /\ stack # <<>> /\ Top.st = "iter" /\ Top.i <= Len(Top.entries)
    /\ ~Top.entries[Top.i].is_dir
    /\ opst = "none"
    /\ LET name == Top.entries[Top.i].name
       IN  IF ~WantedName(name)
           THEN /\ stack' = SetTop([Top EXCEPT !.i = @ + 1])
                /\ UNCHANGED <<stats, op, opst, lp, sv, attempted>>
           ELSE IF SkipsFile(name, env.has_start, env.start_index)
           THEN /\ stats' = [stats EXCEPT !.skipped = @ + 1]
                /\ stack' = SetTop([Top EXCEPT !.i = @ + 1])
                /\ UNCHANGED <<op, opst, lp, sv, attempted>>
           ELSE IF IsBin(name)
           THEN /\ op' = GetOp(JoinPath(Top.path, name), 0)
                /\ opst' = "call"
                /\ stack' = SetTop([Top EXCEPT !.st = "detect"])
                /\ UNCHANGED <<stats, lp, sv, attempted>>
           ELSE /\ StartSave(JoinPath(Top.path, name))
                /\ stack' = SetTop([Top EXCEPT !.st = "save"])
                /\ UNCHANGED <<stats, op, opst>>
    /\ UNCHANGED <<clientVars, wireVars, ret, sigVars, pc, env, started,
                   current_idx, prev_found, medium_info, disk, signalled, aborted,
                   walked, pure>>

\* gather_and_print: detect_doc_type returned; save_file_from_fsp up to its
\* read_file_fsp.
GatherDetectRet ==
    /\ MainRuns
    /\ stack # <<>> /\ Top.st = "detect"
    /\ opst = "ret"
    /\ opst' = "none"
    /\ StartSave(JoinPath(Top.path, Top.entries[Top.i].name))
    /\ stack' = SetTop([Top EXCEPT !.st = "save"])
    /\ UNCHANGED <<clientVars, wireVars, op, ret, sigVars, pc, env, started, stats,
                   current_idx, prev_found, medium_info, disk, signalled, aborted,
                   walked, pure>>

\* gather_and_print: save_file_from_fsp returned; the counters.
GatherSaveRet ==
    /\ MainRuns
    /\ stack # <<>> /\ Top.st = "save"
    /\ sv.st = "ret"
    /\ stats' = [stats EXCEPT !.saved = IF sv.saved THEN @ + 1 ELSE @,
                              !.found = FoundAfter(@, sv.saved)]
    /\ sv' = NoSave
    /\ stack' = SetTop([Top EXCEPT !.i = @ + 1, !.st = "iter"])
    /\ UNCHANGED <<clientVars, wireVars, opVars, sigVars, pc, lp, env, started,
                   current_idx, prev_found, medium_info, disk, signalled, aborted,
                   attempted, walked, pure>>

\* gather_and_print: the entries are exhausted.
GatherReturn ==
    /\ MainRuns
    /\ stack # <<>> /\ Top.st = "iter" /\ Top.i > Len(Top.entries)
    /\ stack' = SubSeq(stack, 1, Len(stack) - 1)
    /\ UNCHANGED <<clientVars, wireVars, opVars, sigVars, pc, lp, env, started, stats,
                   current_idx, prev_found, medium_info, disk, signalled, aborted, auxVars>>

----------------------------------------------------------------------------
(* _graceful_close: the handler of SIGINT and SIGTERM runs on top of the   *)
(* main flow, wherever that stands.                                        *)

\* The positions of main inside `try: ... finally: close()`.
InTry == pc \in {"loop_top", "loop_body", "walk", "walk_body", "final"}

\* The main flow is inside the try block of FSPClient.close(), whose bare
\* `except:` catches what the handler raises.
InClose == op.name = "close" /\ opst \in {"call", "cmd_wait"}

\* The signal arrives: the handler calls close(), which builds the farewell
\* and sends it.
SignalSend ==
    /\ signals > 0
    /\ hst = "idle"
    /\ pc # "done"
    /\ SendPacket("handler", CC_BYE, CloseOp, <<>>)
    /\ hst' = "wait"
    /\ signals' = signals - 1
    /\ signalled' = TRUE
    /\ UNCHANGED <<key, session_initialized, opVars, last_key, faults, pc, lp, env,
                   stack, started, stats, current_idx, prev_found, medium_info, disk,
                   aborted, auxVars>>

\* The handler's close() returns and the handler raises SystemExit(0) in the
\* main flow.
SignalDone ==
    /\ hst = "wait"
    /\ \E response \in Responses(CHOOSE q \in inflight : q.who = "handler") :
          /\ last_key' = LastKeyAfter(response)
          /\ faults' = FaultsAfter(response)
    /\ hst' = "idle"
    /\ IF InClose
       THEN /\ opst' = "ret"
            /\ ret' = None
            /\ inflight' = {}
            /\ UNCHANGED <<op, pc, lp, stack, sv>>
       ELSE /\ op' = NoOp
            /\ opst' = "none"
            /\ ret' = None
            /\ inflight' = {}
            /\ lp' = NoLoop
            /\ stack' = <<>>
            /\ sv' = [sv EXCEPT !.st = "none"]
            /\ pc' = IF InTry THEN "final" ELSE "done"
    /\ UNCHANGED <<clientVars, last_sent, nsent, cmds, signals, env, started, stats,
                   current_idx, prev_found, medium_info, disk, signalled, aborted,
                   attempted, walked, pure>>

NextRun ==
    \/ StartClose
    \/ StartCloseRet
    \/ MediumRet
    \/ KeyDerRet
    \/ AbortClose
    \/ AbortCloseRet
    \/ LoopTop
    \/ LoopCheck
    \/ WalkRoot
    \/ WalkDone
    \/ FinalClose
    \/ FinalCloseRet
    \/ GatherListed
    \/ GatherDir
    \/ GatherFile
    \/ GatherDetectRet
    \/ SaveFetched
    \/ SaveWrite
    \/ SaveReplace
    \/ SaveMeta
    \/ GatherSaveRet
    \/ GatherReturn
    \/ ReadCall
    \/ ReadStep
    \/ PagedCall
    \/ PagedStep
    \/ InitSessionSend
    \/ InitSessionRecv
    \/ CommandSend
    \/ CommandRecv
    \/ SignalSend
    \/ SignalDone

SpecRun == InitRun /\ [][NextRun]_vars

----------------------------------------------------------------------------
(* The claims about the retrieval run, under SpecRun. *)

\* C3: with a start index N, no file on the local storage has a name whose
\* part before the first dot is a number strictly less than N.
C3_NoSavedBelowStart ==
    env.has_start =>
        \A p \in DOMAIN disk :
            LET parts == Split(p, SLASH)
                stem == Split(parts[Len(parts)], DOT)[1]
            IN  IsDigits(stem) => DigitsValue(stem) >= env.start_index

\* A finished run with a start index that skipped a file and saved a file.
C3_Witness ==
    /\ env.has_start
    /\ pc = "done"
    /\ stats.skipped > 0
    /\ stats.saved > 0
    /\ disk # <<>>

\* C8: at no time are two requests of the client in flight, the farewell of
\* the signal handler included.
C8_OneInFlight == Cardinality(inflight) <= 1

\* C9: once a signal has been delivered, the client sends no listing
\* request and no file request any more, and no file is saved.
C9_NoWorkAfterSignal ==
    [][signalled => /\ (nsent' # nsent =>
                            last_sent'.command \notin {CC_GET_DIR, CC_GET_FILE})
                    /\ disk' = disk]_vars

\* C10: when medium.dat could not be read, was empty or short, or holds no
\* device prefix, the run lists no directory and saves no file, and it ends
\* after a farewell; a run that decided to abort sent a farewell afterwards.
C10_AbortOnBadMedium ==
    LET bad == \/ env.medium # "ok"
               \/ pc \notin {"start", "start_close", "medium"} /\ medium_info.none
    IN  /\ bad => (CC_GET_DIR \notin cmds /\ disk = <<>>)
        /\ (bad /\ pc = "done") => (Sent /\ last_sent.command = CC_BYE)
        /\ (aborted # -1 /\ pc = "done") => nsent > aborted

\* A run without a signal that aborted on a medium.dat without prefix.
C10_Witness ==
    /\ env.medium \in {"noprefix", "nonascii"}
    /\ ~signalled
    /\ aborted # -1
    /\ pc = "done"
    /\ last_sent.command = CC_BYE

\* The files that a walk of the directory `path` with the entries `kids`
\* hands to the storage when nothing fails, in order (N = -1: no start index).
RECURSIVE WalkOrder(_, _, _, _)
WalkOrder(path, kids, i, N) ==
    IF i > Len(kids) THEN <<>>
    ELSE LET name == kids[i].name
             stem == Split(name, DOT)[1]
             mine == IF kids[i].is_dir
                     THEN WalkOrder(JoinPath(path, name), kids[i].kids, 1, N)
                     ELSE IF /\ WantedName(name)
                             /\ ~(N >= 0 /\ IsDigits(stem) /\ DigitsValue(stem) < N)
                     THEN <<JoinPath(path, name)>>
                     ELSE <<>>
         IN  mine \o WalkOrder(path, kids, i + 1, N)

\* The entries of the directory reached from `kids` by the names `parts`
\* (no entries when there is no such directory).
RECURSIVE KidsAt(_, _)
KidsAt(kids, parts) ==
    IF parts = <<>> THEN kids
    ELSE LET hits == {i \in 1..Len(kids) : kids[i].is_dir /\ kids[i].name = parts[1]}
         IN  IF hits = {} THEN <<>>
             ELSE KidsAt(kids[CHOOSE i \in hits : TRUE].kids, Tail(parts))

\* The same for a run with start index N: directory after directory from
\* the one of document idx on, until one holds no file to hand over.
RECURSIVE StartOrder(_, _, _)
StartOrder(tree, idx, N) ==
    LET here == WalkOrder(JoinPath(DocRoot, SubPath(idx)),
                          KidsAt(tree, Split(SubPath(idx), SLASH)), 1, N)
    IN  IF here = <<>> THEN <<>> ELSE here \o StartOrder(tree, idx + 100, N)

ExpectedOrder ==
    IF env.has_start THEN StartOrder(env.tree, env.start_index, env.start_index)
    ELSE WalkOrder(DocRoot, env.tree, 1, -1)

----------------------------------------------------------------------------
(* SpecSave: one call of save_file_from_fsp on a fresh client, for a file  *)
(* of 0, 3 or 130 bytes, over a local storage that is empty or holds an    *)
(* earlier save of the same file; a request or the write may fail and a    *)
(* signal may cancel the call between any two steps.                       *)

SaveFaults == 1

SavePath == JoinPath(DocRoot, DocName(46, DotSIG))
SaveLens == {0, 3, 130}
OldBytes == <<9, 9>>

\* The local storage after an earlier run saved OldBytes for remote_path.
EarlierSave(remote_path) ==
    (TargetPath(remote_path) :> OldBytes)
    @@ (TargetPath(remote_path) \o MetaSuffix :>
           [original_path |-> remote_path, saved_path |-> TargetPath(remote_path),
            size |-> Len(OldBytes)])

SaveEnvs ==
    {[keys |-> {258}, fs |-> [dirs |-> <<>>, files |-> (SavePath :> FileBytes(L))],
      page |-> 8, seg |-> DefaultSegmentSize, stat_len |-> 12, end_marker |-> TRUE, base |-> 0,
      page_size |-> DefaultPageSize, fault_kinds |-> {"timeout", "err", "write"},
      fault_scoped |-> FALSE, fault_paths |-> {}, previous |-> pv] :
        L \in SaveLens, pv \in BOOLEAN}

InitSave ==
    /\ env \in SaveEnvs
    /\ InitClient
    /\ faults = SaveFaults
    /\ signals = MaxSignals
    /\ pc = "save"
    /\ stack = <<>>
    /\ started = FALSE
    /\ stats = [found |-> 0, skipped |-> 0, saved |-> 0]
    /\ current_idx = 0
    /\ prev_found = 0
    /\ medium_info = None
    /\ disk = IF env.previous THEN EarlierSave(SavePath) ELSE <<>>
    /\ signalled = FALSE
    /\ aborted = -1
    /\ sv = [st |-> "read", remote_path |-> SavePath, data |-> <<>>, saved |-> FALSE]
    /\ attempted = <<SavePath>>
    /\ lp = ReadLoop(SavePath, DefaultSegmentSize)
    /\ walked = <<>>
    /\ pure = NoCall

\* save_file_from_fsp has returned to its caller.
SaveReturn ==
    /\ MainRuns
    /\ pc = "save"
    /\ sv.st = "ret"
    /\ pc' = "done"
    /\ UNCHANGED <<clientVars, wireVars, opVars, sigVars, lp, env, runVars>>

NextSave ==
    \/ ReadCall
    \/ ReadStep
    \/ InitSessionSend
    \/ InitSessionRecv
    \/ CommandSend
    \/ CommandRecv
    \/ SaveFetched
    \/ SaveWrite
    \/ SaveReplace
    \/ SaveMeta
    \/ SaveReturn
    \/ SignalSend
    \/ SignalDone

SpecSave == InitSave /\ [][NextSave]_vars

\* C12: whatever request failed, the stored file holds the complete bytes
\* of the remote file (or still those of the earlier save).
C12_StoredComplete ==
    TargetPath(SavePath) \in DOMAIN disk =>
        \/ env.previous /\ disk[TargetPath(SavePath)] = OldBytes
        \/ disk[TargetPath(SavePath)] = env.fs.files[SavePath]

\* C13: the target path is absent, or holds the bytes of the earlier save,
\* or holds all the bytes that this call of save_file_from_fsp fetched.
C13_AtomicWrite ==
    TargetPath(SavePath) \in DOMAIN disk =>
        \/ env.previous /\ disk[TargetPath(SavePath)] = OldBytes
        \/ sv.data # <<>> /\ disk[TargetPath(SavePath)] = sv.data

\* A failed write left a part of the bytes under <file>.tmp while <file>
\* still holds the earlier save.
C13_Witness ==
    /\ env.previous
    /\ sv.st = "ret" /\ ~sv.saved
    /\ WritePath(TargetPath(SavePath)) \in DOMAIN disk
    /\ disk[WritePath(TargetPath(SavePath))] = PartialWrite(sv.data)
    /\ Len(sv.data) > Len(PartialWrite(sv.data))
    /\ disk[TargetPath(SavePath)] = OldBytes

\* C14: in one run no remote path is handed to save_file_from_fsp twice and
\* gather_and_print is called for no directory twice.
C14_HandedOnce ==
    /\ \A i, j \in 1..Len(attempted) : attempted[i] = attempted[j] => i = j
    /\ \A i, j \in 1..Len(walked) : walked[i] = walked[j] => i = j

----------------------------------------------------------------------------
(* SpecCodec: _build_fsp_packet on a client with any key and sequence, and *)
(* _parse_fsp_packet on the packet it built.                               *)

MaxPayload == 3

CodecCommands == {0, CC_VERSION, CC_GET_FILE, 255}
CodecKeys == {0, 1, 258, TwoTo16 - 1}
CodecSequences == {0, 255, 256, TwoTo16 - 1}
CodecPositions == {0, 1, TwoTo16, 2147483647}

\* Payloads of up to MaxPayload bytes, and the shortest payloads whose
\* length is 2^16 - 1, 2^16 and 2^16 + 1.
ShortPayloads == UNION {[1..n -> {0, 255}] : n \in 0..MaxPayload}
LongPayloads == {[i \in 1..n |-> 1] : n \in {TwoTo16 - 1, TwoTo16, TwoTo16 + 1}}

CodecEnv ==
    [keys |-> {}, fs |-> [dirs |-> <<>>, files |-> <<>>], page |-> 1, seg |-> 1,
     stat_len |-> 12, end_marker |-> TRUE, base |-> 0, page_size |-> DefaultPageSize, fault_kinds |-> {},
     fault_scoped |-> FALSE, fault_paths |-> {}]

\* The state of a client and a run that have not started, for the
\* specifications that apply one function to its inputs.
InitIdle ==
    /\ env = CodecEnv
    /\ session_initialized = FALSE
    /\ last_sent = NoPacket
    /\ nsent = 0
    /\ cmds = {}
    /\ inflight = {}
    /\ op = NoOp
    /\ opst = "none"
    /\ ret = None
    /\ last_key = 0
    /\ hst = "idle"
    /\ faults = 0
    /\ signals = 0
    /\ lp = NoLoop
    /\ stack = <<>>
    /\ started = FALSE
    /\ stats = [found |-> 0, skipped |-> 0, saved |-> 0]
    /\ current_idx = 0
    /\ prev_found = 0
    /\ medium_info = None
    /\ disk = <<>>
    /\ signalled = FALSE
    /\ aborted = -1
    /\ sv = NoSave
    /\ attempted = <<>>
    /\ walked = <<>>

idleVars == <<session_initialized, wireVars, opVars, sigVars, pc, lp, env, stack,
              started, stats, current_idx, prev_found, medium_info, disk, signalled,
              aborted, sv, attempted, walked>>

InitCodec ==
    /\ InitIdle
    /\ pc = "codec"
    /\ key \in CodecKeys
    /\ sequence \in CodecSequences
    /\ \/ \E c \in CodecCommands, q \in CodecPositions, d \in ShortPayloads :
             pure = [fn |-> "build", command |-> c, position |-> q, data |-> d,
                     key |-> key, sequence |-> sequence]
       \/ \E d \in LongPayloads :
             /\ key = 258
             /\ sequence = 0
             /\ pure = [fn |-> "build", command |-> CC_GET_FILE, position |-> 0,
                        data |-> d, key |-> key, sequence |-> sequence]

\* packet = self._build_fsp_packet(command, position, data)
CodecBuild ==
    /\ pc = "codec"
    /\ pure.fn = "build"
    /\ pure' = [fn |-> "built", command |-> pure.command, position |-> pure.position,
                data |-> pure.data, key |-> pure.key, sequence |-> pure.sequence,
                packet |-> build_fsp_packet(pure.command, pure.position, pure.data)]
    /\ sequence' = NextSequence(sequence)
    /\ UNCHANGED <<key, idleVars>>

\* self._parse_fsp_packet(packet)
CodecParse ==
    /\ pc = "codec"
    /\ pure.fn = "built"
    /\ pure' = [fn |-> "parsed", command |-> pure.command, position |-> pure.position,
                data |-> pure.data, key |-> pure.key, sequence |-> pure.sequence,
                packet |-> pure.packet, parsed |-> parse_fsp_packet(pure.packet)]
    /\ key' = ParsedKey(key, pure.packet)
    /\ UNCHANGED <<sequence, idleVars>>

NextCodec ==
    \/ CodecBuild
    \/ CodecParse

SpecCodec == InitCodec /\ [][NextCodec]_vars

\* C15 (as claimed): parsing a built packet gives back the command, the key,
\* the sequence and the position, a data_length that is the payload's
\* length, the payload itself and no extra data, whatever the payload.
C15_RoundTrip ==
    pure.fn = "parsed" =>
        /\ ~pure.parsed.none
        /\ pure.parsed.command = pure.command
        /\ pure.parsed.key = pure.key
        /\ pure.parsed.sequence = pure.sequence
        /\ pure.parsed.position = pure.position
        /\ pure.parsed.data_length = Len(pure.data)
        /\ pure.parsed.data = pure.data
        /\ pure.parsed.xtra_data = <<>>

\* C15 (amended): the same for every payload of at most 2^16 - 1 bytes.
C15_RoundTripBelow64K ==
    (pure.fn = "parsed" /\ Len(pure.data) < TwoTo16) =>
        /\ ~pure.parsed.none
        /\ pure.parsed.command = pure.command
        /\ pure.parsed.key = pure.key
        /\ pure.parsed.sequence = pure.sequence
        /\ pure.parsed.position = pure.position
        /\ pure.parsed.data_length = Len(pure.data)
        /\ pure.parsed.data = pure.data
        /\ pure.parsed.xtra_data = <<>>

\* A packet with a three-byte payload, a two-byte key, the last sequence
\* number and a position above 2^16 has been built and parsed back.
C15_Witness ==
    /\ pure.fn = "parsed"
    /\ pure.data = <<255, 0, 255>>
    /\ pure.key = 258
    /\ pure.sequence = TwoTo16 - 1
    /\ pure.position > TwoTo16
    /\ pure.parsed.data = pure.data
    /\ sequence = 0

\* C16: byte 1 of a built packet is (S + (S >> 8)) & 0xFF for S the
\* packet's length plus the sum of its bytes with byte 1 taken as 0, and the
\* other bytes are the header fields and the payload as they were written.
C16_ChecksumByte ==
    pure.fn \in {"built", "parsed"} =>
        LET packet == pure.packet
            S == Len(packet) + SumBytes([packet EXCEPT ![2] = 0])
        IN  /\ packet[2] = (S + (S \div 256)) % 256
            /\ packet[1] = pure.command
            /\ SubSeq(packet, 3, 12) =
                   <<pure.key \div 256, pure.key % 256,
                     pure.sequence \div 256, pure.sequence % 256,
                     (Len(pure.data) % 65536) \div 256, Len(pure.data) % 256,
                     pure.position \div 16777216, (pure.position \div 65536) % 256,
                     (pure.position \div 256) % 256, pure.position % 256>>
            /\ SubSeq(packet, 13, Len(packet)) = pure.data

\* A packet whose byte sum needs the carry of S >> 8 has been built.
C16_Witness ==
    /\ pure.fn = "built"
    /\ pure.command = 255
    /\ pure.data = <<255, 255, 255>>
    /\ pure.key = TwoTo16 - 1
    /\ pure.packet[2] # 0

----------------------------------------------------------------------------
(* SpecResponse: get_file and list_directory on one datagram, of any size  *)
(* and with any declared data_length, returned by recvfrom on a client     *)
(* whose session is initialized.                                           *)

MaxDeclared == 4
MaxBody == 3

ResponseCommands == {CC_ERR, CC_GET_DIR, CC_GET_FILE}
ResponseKeys == {0, 258}

\* Datagrams shorter than a header.
ShortDatagrams ==
    {[i \in 1..n |-> IF i = 1 THEN c ELSE 0] : n \in 0..(HEADER_LEN - 1),
                                               c \in ResponseCommands}

\* The bytes after the header: any MaxBody bytes or fewer, one directory
\* entry, one directory entry and the end-marker, the end-marker alone.
OneEntry == [timestamp |-> 0, size |-> 5, type |-> RDTYPE_FILE, name |-> <<97>>]
Bodies ==
    UNION {[1..n -> {0, 69}] : n \in 0..MaxBody}
    \cup {EncodeEntries(<<OneEntry>>), EncodeEntries(<<OneEntry, EndEntry>>),
          EncodeEntries(<<EndEntry>>)}

\* A header declaring `declared` bytes, followed by `body`.
Datagram(command, k, declared, body) ==
    <<command, 0>> \o PackH(k) \o PackH(0) \o PackH(declared) \o PackI(0) \o body

\* Stat payloads of 8 to 13 bytes: timestamp 1000, size 5, type directory,
\* then padding.
StatBodies ==
    {SubSeq(PackI(1000) \o PackI(5) \o <<RDTYPE_DIR, 7, 7, 7, 7>>, 1, n) : n \in 8..13}

Datagrams ==
    ShortDatagrams
    \cup {Datagram(c, k, Len(b), b) : c \in {CC_ERR, CC_STAT}, k \in ResponseKeys,
                                      b \in StatBodies}
    \cup {Datagram(c, k, n, b) : c \in ResponseCommands, k \in ResponseKeys,
                                 n \in 0..MaxDeclared, b \in Bodies}
    \cup {Datagram(c, k, Len(b), b) : c \in ResponseCommands, k \in ResponseKeys,
                                      b \in Bodies}

Received(bytes) == [kind |-> "ok", recv |-> TRUE, bytes |-> bytes]

\* The data_length field of a datagram that holds a header.
Declared(bytes) == UnpackH(Slice(bytes, 6, 8))

\* list_directory returns on every path, a pair (entries, found_end): its
\* body is one try block whose handler returns ([], False).
list_directory_outcome(response) ==
    [raised |-> FALSE, message |-> <<>>, value |-> list_directory_result(response)]

\* get_file returns on every path, bytes or None.
get_file_outcome(response) ==
    [raised |-> FALSE, message |-> <<>>, value |-> get_file_result(response)]

\* stat_file returns on every path, a dict or None.
stat_file_outcome(response) ==
    [raised |-> FALSE, message |-> <<>>, value |-> stat_file_result(response)]

InitResponse ==
    /\ InitIdle
    /\ pc = "response"
    /\ key = 0
    /\ sequence = 0
    /\ \E name \in {"get", "list", "stat"}, b \in Datagrams :
          pure = [fn |-> "recv", name |-> name, bytes |-> b]

\* get_file from the return of _send_fsp_through_svc on.
ResponseGetFile ==
    /\ pc = "response"
    /\ pure.fn = "recv"
    /\ pure.name = "get"
    /\ pure' = [fn |-> "done", name |-> pure.name, bytes |-> pure.bytes,
                outcome |-> get_file_outcome(Received(pure.bytes))]
    /\ key' = KeyAfter(pure.name, Received(pure.bytes))
    /\ UNCHANGED <<sequence, idleVars>>

\* list_directory from the return of _send_fsp_through_svc on.
ResponseListDirectory ==
    /\ pc = "response"
    /\ pure.fn = "recv"
    /\ pure.name = "list"
    /\ pure' = [fn |-> "done", name |-> pure.name, bytes |-> pure.bytes,
                outcome |-> list_directory_outcome(Received(pure.bytes))]
    /\ key' = KeyAfter(pure.name, Received(pure.bytes))
    /\ UNCHANGED <<sequence, idleVars>>

\* stat_file from the return of _send_fsp_through_svc on.
ResponseStatFile ==
    /\ pc = "response"
    /\ pure.fn = "recv"
    /\ pure.name = "stat"
    /\ pure' = [fn |-> "done", name |-> pure.name, bytes |-> pure.bytes,
                outcome |-> stat_file_outcome(Received(pure.bytes))]
    /\ key' = KeyAfter(pure.name, Received(pure.bytes))
    /\ UNCHANGED <<sequence, idleVars>>

NextResponse ==
    \/ ResponseGetFile
    \/ ResponseListDirectory
    \/ ResponseStatFile

SpecResponse == InitResponse /\ [][NextResponse]_vars

\* What a failed operation gives its caller: get_file None, list_directory
\* ([], False).
OperationFailed(name, outcome) ==
    \/ outcome.raised
    \/ name \in {"get", "stat"} /\ outcome.value.none
    \/ name = "list" /\ outcome.value = NoEntries

\* C17: a response of fewer than 12 bytes, or one whose data_length exceeds
\* the bytes that follow its header, makes the operation fail; get_file
\* never returns fewer bytes than the response declared.
C17_StrictResponseSize ==
    pure.fn = "done" =>
        /\ (\/ Len(pure.bytes) < HEADER_LEN
            \/ Declared(pure.bytes) > Len(pure.bytes) - HEADER_LEN)
               => OperationFailed(pure.name, pure.outcome)
        /\ (pure.name = "get" /\ ~OperationFailed(pure.name, pure.outcome))
               => Len(pure.outcome.value.data) >= Declared(pure.bytes)

\* The directory answers that list no entry: command 0x41 with no bytes
\* after the header.
EmptyListings == {Datagram(CC_GET_DIR, k, 0, <<>>) : k \in ResponseKeys}

\* C18: on a response whose command is 0x40 list_directory raises an
\* error that carries the response's message, and what its caller gets
\* differs from what it gets for a listing without entries.
C18_ErrorResponseRaises ==
    (/\ pure.fn = "done"
     /\ pure.name = "list"
     /\ Len(pure.bytes) >= HEADER_LEN
     /\ pure.bytes[1] = CC_ERR) =>
        /\ pure.outcome.raised
        /\ pure.outcome.message = parse_fsp_packet(pure.bytes).data
        /\ \A b \in EmptyListings :
              pure.outcome # list_directory_outcome(Received(b))

----------------------------------------------------------------------------
(* bin_parser.parse_records: the iteration over the records of a document. *)

REC_HEADER_LEN == 6

\* int.from_bytes(b, 'big') of two bytes.
FromBytes2(b) == b[1] * TwoTo8 + b[2]

\* A record body that starts at the record's header.
RecordBodyWithHeader(data, offset, rec_size) == Slice(data, offset, offset + rec_size)

\* A record body that takes one byte past the declared size.
RecordBodyOneMore(data, offset, rec_size) ==
    Slice(data, offset + REC_HEADER_LEN, offset + rec_size + 1)

\* rec_data = data[offset+6: offset+rec_size]
RecordBody(data, offset, rec_size) ==
    Slice(data, offset + REC_HEADER_LEN, offset + rec_size)

\* An iteration that moves on by the header's length only.
AdvanceByHeader(offset, rec_size) == offset + REC_HEADER_LEN

\* offset += rec_size
Advance(offset, rec_size) == offset + rec_size

\* A size test that only stops at a declared size of 0.
MalformedZeroOnly(rec_size) == rec_size = 0

\* if rec_size < 6: break
Malformed(rec_size) == rec_size < REC_HEADER_LEN

\* The records yielded from `offset` on, after those of `out`.  The test
\* `rec_size == 0` after the yield is never true there: a size below 6 has
\* left the loop before.
RECURSIVE ParseRecordsFrom(_, _, _)
ParseRecordsFrom(data, offset, out) ==
    IF ~(offset + REC_HEADER_LEN <= Len(data)) THEN out
    ELSE LET rec_type == FromBytes2(Slice(data, offset + 2, offset + 4))
             rec_size == FromBytes2(Slice(data, offset + 4, offset + 6))
         IN  IF Malformed(rec_size) THEN out
             ELSE ParseRecordsFrom(data, Advance(offset, rec_size),
                      Append(out, [rec_type |-> rec_type, rec_size |-> rec_size,
                                   rec_data |-> RecordBody(data, offset, rec_size)]))

\* list(parse_records(data)): no statement of the generator raises, since
\* parse_record is called inside a try whose handler sets parsed to None.
parse_records(data) ==
    [raised |-> FALSE, records |-> ParseRecordsFrom(data, 0, <<>>)]

----------------------------------------------------------------------------
(* SpecRecords: parse_records on a run of well-formed records followed by  *)
(* nothing, by part of a header, by a header that declares fewer than 6    *)
(* bytes, or by a record that declares more bytes than the buffer holds.   *)

MaxRecords == 2
MaxRecBody == 2
MaxExcess == 2

RecordTypes == {10, 68}
\* Bodies of 0..MaxRecBody bytes: all zero, or the multiples of 7.
RecordBodies == {[i \in 1..n |-> f * i] : n \in 0..MaxRecBody, f \in {0, 7}}

Record(rec_type, rec_size, rec_data) ==
    [rec_type |-> rec_type, rec_size |-> rec_size, rec_data |-> rec_data]

WellFormedRecords ==
    {Record(t, REC_HEADER_LEN + Len(b), b) : t \in RecordTypes, b \in RecordBodies}

EncodeRecord(r) == <<0, 0>> \o PackH(r.rec_type) \o PackH(r.rec_size) \o r.rec_data

RECURSIVE EncodeRecords(_)
EncodeRecords(rs) ==
    IF rs = <<>> THEN <<>> ELSE EncodeRecord(rs[1]) \o EncodeRecords(Tail(rs))

WellFormedStreams(n) == UNION {[1..k -> WellFormedRecords] : k \in 0..n}

NoTail == [kind |-> "none", bytes |-> <<>>]

Tails ==
    {[kind |-> "partial", bytes |-> [i \in 1..n |-> 0]] : n \in 1..(REC_HEADER_LEN - 1)}
    \cup {[kind |-> "small", bytes |-> EncodeRecord(Record(68, z, b))] :
             z \in {0, REC_HEADER_LEN - 1},
             b \in {<<>>, <<7>>, EncodeRecord(Record(10, REC_HEADER_LEN, <<>>))}}
    \cup {[kind |-> "oversized",
           bytes |-> EncodeRecord(Record(68, REC_HEADER_LEN + Len(b) + x, b))] :
             x \in 1..MaxExcess, b \in RecordBodies}

RecordInputs ==
    {[records |-> rs, tail |-> NoTail] : rs \in WellFormedStreams(MaxRecords)}
    \cup {[records |-> rs, tail |-> t] :
             rs \in WellFormedStreams(MaxRecords - 1), t \in Tails}

InitRecords ==
    /\ InitIdle
    /\ pc = "records"
    /\ key = 0
    /\ sequence = 0
    /\ \E i \in RecordInputs :
          pure = [fn |-> "parse", records |-> i.records, tail |-> i.tail,
                  data |-> EncodeRecords(i.records) \o i.tail.bytes]

\* list(parse_records(data))
RecordsParse ==
    /\ pc = "records"
    /\ pure.fn = "parse"
    /\ pure' = [fn |-> "parsed", records |-> pure.records, tail |-> pure.tail,
                data |-> pure.data, out |-> parse_records(pure.data)]
    /\ UNCHANGED <<key, sequence, idleVars>>

NextRecords == RecordsParse

SpecRecords == InitRecords /\ [][NextRecords]_vars

RECURSIVE SumSizes(_)
SumSizes(rs) == IF rs = <<>> THEN 0 ELSE rs[1].rec_size + SumSizes(Tail(rs))

\* C19: from a well-formed stream parse_records yields the records of the
\* stream, one for one and in order, and their sizes add up to the length
\* of the input.
C19_WellFormedStream ==
    (pure.fn = "parsed" /\ pure.tail.kind = "none") =>
        /\ ~pure.out.raised
        /\ pure.out.records = pure.records
        /\ SumSizes(pure.out.records) = Len(pure.data)

\* Two records of different types and body lengths have been parsed.
C19_Witness ==
    /\ pure.fn = "parsed"
    /\ pure.tail.kind = "none"
    /\ Len(pure.records) = 2
    /\ pure.records[1].rec_type # pure.records[2].rec_type
    /\ Len(pure.records[1].rec_data) = 2
    /\ Len(pure.records[2].rec_data) = 1
    /\ Len(pure.out.records) = 2

\* C20 (as claimed): when the last record declares more bytes than remain,
\* parse_records does not raise, yields nothing after that record, and every
\* record it yields has a body of exactly rec_size - 6 bytes.
C20_OversizedExactBodies ==
    (pure.fn = "parsed" /\ pure.tail.kind = "oversized") =>
        /\ ~pure.out.raised
        /\ Len(pure.out.records) <= Len(pure.records) + 1
        /\ \A i \in 1..Len(pure.out.records) :
              Len(pure.out.records[i].rec_data) =
                  pure.out.records[i].rec_size - REC_HEADER_LEN

\* C20 (amended): it does not raise and yields nothing after that record;
\* the records before it are yielded with bodies of exactly rec_size - 6
\* bytes, and that record itself with the bytes that remain as its body.
C20_OversizedTruncatedLast ==
    (pure.fn = "parsed" /\ pure.tail.kind = "oversized") =>
        LET n == Len(pure.records)
            out == pure.out.records
        IN  /\ ~pure.out.raised
            /\ Len(out) = n + 1
            /\ SubSeq(out, 1, n) = pure.records
            /\ \A i \in 1..n : Len(out[i].rec_data) = out[i].rec_size - REC_HEADER_LEN
            /\ out[n + 1].rec_size = FromBytes2(Slice(pure.tail.bytes, 4, 6))
            /\ out[n + 1].rec_data = SliceFrom(pure.tail.bytes, REC_HEADER_LEN)
            /\ Len(out[n + 1].rec_data) < out[n + 1].rec_size - REC_HEADER_LEN

\* A record with a body has been parsed before a record that declares two
\* bytes more than the buffer holds.
C20_Witness ==
    /\ pure.fn = "parsed"
    /\ pure.tail.kind = "oversized"
    /\ Len(pure.records) = 1
    /\ Len(pure.records[1].rec_data) = 2
    /\ Len(pure.out.records) = 2
    /\ pure.out.records[2].rec_size = REC_HEADER_LEN + 3
    /\ Len(pure.out.records[2].rec_data) = 1

\* C21: at a header that declares fewer than 6 bytes (0 included)
\* parse_records stops without raising and without yielding that record,
\* the records before it are yielded unchanged; and on every input each
\* yielded record moves the offset on by at least 6, so that no more than
\* len(data) / 6 records are yielded.
C21_StopsAtSmallSize ==
    pure.fn = "parsed" =>
        /\ ~pure.out.raised
        /\ pure.tail.kind = "small" => pure.out.records = pure.records
        /\ \A i \in 1..Len(pure.out.records) :
              pure.out.records[i].rec_size >= REC_HEADER_LEN
        /\ Len(pure.out.records) * REC_HEADER_LEN <= Len(pure.data)

\* A record has been yielded before a header that declares 5 bytes and is
\* followed by one more byte.
C21_Witness ==
    /\ pure.fn = "parsed"
    /\ pure.tail.kind = "small"
    /\ FromBytes2(Slice(pure.tail.bytes, 4, 6)) = REC_HEADER_LEN - 1
    /\ Len(pure.tail.bytes) > REC_HEADER_LEN
    /\ Len(pure.records) = 1
    /\ pure.out.records = pure.records

----------------------------------------------------------------------------
(* bin_parser: the per-type decoders.  A dict is a function from its keys; *)
(* text is the sequence of its character codes (the inputs are ASCII).     *)

EmptyDict == [k \in {} |-> 0]

\* out[k] = v
Put(out, k, v) == [x \in DOMAIN out \cup {k} |-> IF x = k THEN v ELSE out[x]]

\* int.from_bytes(b, 'big')
RECURSIVE FromBytes(_)
FromBytes(b) ==
    IF b = <<>> THEN 0 ELSE FromBytes(SubSeq(b, 1, Len(b) - 1)) * TwoTo8 + b[Len(b)]

\* b.split(b'\x00', 1)[0]
RECURSIVE UpToNul(_)
UpToNul(b) ==
    IF b = <<>> \/ b[1] = NUL THEN <<>> ELSE <<b[1]>> \o UpToNul(Tail(b))

\* _asciiz(b): the text before the first NUL.
asciiz(b) == UpToNul(b)

\* b.decode('ascii', errors='replace')
DecodeAscii(b) == [i \in 1..Len(b) |-> IF b[i] < 128 THEN b[i] ELSE 65533]

\* The value of the digit string s followed by f"{nibble}": one more digit,
\* two for a nibble above 9.
AppendNibble(v, nibble) == IF nibble < 10 THEN v * 10 + nibble ELSE v * 100 + nibble

\* bcd_to_int(b)
RECURSIVE bcd_to_int(_)
bcd_to_int(b) ==
    IF b = <<>> THEN 0
    ELSE AppendNibble(AppendNibble(bcd_to_int(SubSeq(b, 1, Len(b) - 1)),
                                   (b[Len(b)] \div 16) % 16),
                      b[Len(b)] % 16)

\* bcd_to_decimal(b, precision): the float i / 10 ** precision, kept as the
\* pair of i and precision.
bcd_to_decimal(b, precision) == [i |-> bcd_to_int(b), precision |-> precision]

\* bcd6_to_decimal(b, precision)
bcd6_to_decimal(b, precision) ==
    IF Len(b) >= 6 THEN bcd_to_decimal(Slice(b, 0, 6), precision)
    ELSE bcd_to_decimal(b, precision)

IsLeap(y) == (y % 4 = 0 /\ y % 100 # 0) \/ y % 400 = 0
DaysInYear(y) == IF IsLeap(y) THEN 366 ELSE 365
DaysInMonth(y, m) ==
    IF m = 2 THEN (IF IsLeap(y) THEN 29 ELSE 28)
    ELSE IF m \in {4, 6, 9, 11} THEN 30 ELSE 31

\* The date `days` days after the first of January of year y.
RECURSIVE DateFromYear(_, _)
RECURSIVE DateFromMonth(_, _, _)
DateFromMonth(days, y, m) ==
    IF days >= DaysInMonth(y, m) THEN DateFromMonth(days - DaysInMonth(y, m), y, m + 1)
    ELSE [year |-> y, month |-> m, day |-> days + 1]
DateFromYear(days, y) ==
    IF days >= DaysInYear(y) THEN DateFromYear(days - DaysInYear(y), y + 1)
    ELSE DateFromMonth(days, y, 1)

\* ts_from_fsp(seconds_since_2000): (datetime(2000, 1, 1) +
\* timedelta(seconds=...)).isoformat(), for the seconds of an unsigned long.
ts_from_fsp(seconds_since_2000) ==
    LET d == DateFromYear(seconds_since_2000 \div 86400, 2000)
        r == seconds_since_2000 % 86400
    IN  DecStr(d.year) \o <<45>> \o Format02d(d.month) \o <<45>> \o Format02d(d.day)
        \o <<84>> \o Format02d(r \div 3600) \o <<58>> \o Format02d((r % 3600) \div 60)
        \o <<58>> \o Format02d(r % 60)

\* A field of a record layout: its key, its length and how it is decoded.
Field(name, len, kind) == [name |-> name, len |-> len, kind |-> kind]

\* out after the assignments made for field f read from the bytes b.
Store(out, f, b) ==
    CASE f.kind = "byte" -> Put(out, f.name, b[1])
      [] f.kind = "uint" -> Put(out, f.name, FromBytes(b))
      [] f.kind = "time" ->
            Put(Put(out, f.name, FromBytes(b)), "timestamp_iso", ts_from_fsp(FromBytes(b)))
      [] f.kind = "asciiz" -> Put(out, f.name, asciiz(b))
      [] f.kind = "ascii" -> Put(out, f.name, DecodeAscii(b))
      [] f.kind = "bcd" -> Put(out, f.name, bcd6_to_decimal(b, 2))

\* The decoders whose every field is
\*     if len(data) >= off + n: out[name] = ...; off += n
\* from field i of the layout on: a field that does not fit is passed over
\* and leaves off where it is.
RECURSIVE ReadFields(_, _, _, _, _)
ReadFields(data, layout, i, off, out) ==
    IF i > Len(layout) THEN [out |-> out, off |-> off]
    ELSE IF Len(data) >= off + layout[i].len
    THEN ReadFields(data, layout, i + 1, off + layout[i].len,
                    Store(out, layout[i], Slice(data, off, off + layout[i].len)))
    ELSE ReadFields(data, layout, i + 1, off, out)

\* if len(data) > off: out['rest'] = data[off:]
WithRest(data, r) ==
    IF Len(data) > r.off THEN Put(r.out, "rest", SliceFrom(data, r.off)) ELSE r.out

Layout44 ==
    <<Field("doc_type", 1, "byte"), Field("timestamp", 4, "time"),
      Field("doc_number", 4, "uint"), Field("mode", 1, "byte"),
      Field("nip", 10, "asciiz"), Field("prefix", 1, "asciiz")>>

parse_header_0x44(data) ==
    IF Len(data) < 1 THEN EmptyDict
    ELSE WithRest(data, ReadFields(data, Layout44, 1, 0, EmptyDict))

Layout41 ==
    <<Field("doc_type", 1, "byte"), Field("mode", 1, "byte"), Field("status", 1, "byte"),
      Field("doc_number", 4, "uint"), Field("timestamp", 4, "time"),
      Field("unique_number", 14, "asciiz"), Field("kasa_number", 8, "asciiz"),
      Field("cashier", 32, "asciiz"), Field("buyer_nip", 30, "asciiz")>>

parse_footer_0x41(data) == WithRest(data, ReadFields(data, Layout41, 1, 0, EmptyDict))

Layout64 ==
    <<Field("section_type", 1, "byte"), Field("value", 6, "bcd"),
      Field("currency", 3, "ascii"), Field("vat_id", 1, "byte")>>

parse_values_0x64(data) == ReadFields(data, Layout64, 1, 0, EmptyDict).out

Layout6A ==
    <<Field("cash_flag", 1, "byte"), Field("type", 1, "byte"), Field("amount", 6, "bcd"),
      Field("name", 25, "asciiz"), Field("currency", 3, "ascii")>>

parse_payment_0x6A(data) == ReadFields(data, Layout6A, 1, 0, EmptyDict).out

\* if c: out[k] = v
PutIf(c, out, k, v) == IF c THEN Put(out, k, v) ELSE out

\* parse_packaging_0x63: off moves on whether the field was read or not.
parse_packaging_0x63(data) ==
    LET o1 == PutIf(Len(data) >= 40, EmptyDict, "name", UpToNul(Slice(data, 0, 40)))
        o2 == PutIf(Len(data) >= 46, o1, "value", bcd6_to_decimal(Slice(data, 40, 46), 2))
        has_qty == Len(data) >= 52
        has_precision == Len(data) >= 53
        precision == IF has_precision THEN data[53] ELSE 2
        o3 == PutIf(has_precision, o2, "precision", precision)
        o4 == PutIf(has_qty, o3, "qty", bcd_to_decimal(Slice(data, 46, 52), precision))
        o5 == PutIf(Len(data) >= 59, o4, "total", bcd6_to_decimal(Slice(data, 53, 59), 2))
    IN  IF Len(data) >= 61 THEN Put(Put(o5, "sign", data[60]), "kind", data[61]) ELSE o5

\* f"{b:02X}"
HexUpper(n) == IF n < 10 THEN 48 + n ELSE 55 + n
Format02X(b) == <<HexUpper(b \div 16), HexUpper(b % 16)>>

\* parse_sale_0x61: off moves on whether the field was read or not; name and
\* desc are always set.
parse_sale_0x61(data) ==
    LET o1 == Put(EmptyDict, "name",
                  IF Len(data) >= 80 THEN UpToNul(Slice(data, 0, 80)) ELSE Slice(data, 0, 80))
        o2 == PutIf(Len(data) >= 81, o1, "vat_symbol",
                    IF Len(data) >= 81 /\ 32 <= data[81] /\ data[81] < 127
                    THEN <<data[81]>>
                    ELSE IF Len(data) >= 81 THEN Format02X(data[81]) ELSE <<>>)
        o3 == PutIf(Len(data) >= 87, o2, "price", bcd_to_decimal(Slice(data, 81, 87), 2))
        o4 == PutIf(Len(data) >= 93, o3, "total", bcd_to_decimal(Slice(data, 87, 93), 2))
        o5 == PutIf(Len(data) >= 99, o4, "quantity", bcd_to_decimal(Slice(data, 93, 99), 2))
        o6 == PutIf(Len(data) >= 100, o5, "precision",
                    IF Len(data) >= 100 THEN data[100] ELSE 0)
        o7 == PutIf(Len(data) >= 104, o6, "unit", UpToNul(Slice(data, 100, 104)))
    IN  Put(o7, "desc",
            IF Len(data) >= 154 THEN UpToNul(Slice(data, 104, 154))
            ELSE UpToNul(SliceFrom(data, 104)))

\* bytes.hex()
HexLower(n) == IF n < 10 THEN 48 + n ELSE 87 + n
RECURSIVE Hex(_)
Hex(b) ==
    IF b = <<>> THEN <<>>
    ELSE <<HexLower(b[1] \div 16), HexLower(b[1] % 16)>> \o Hex(Tail(b))

\* Whether the character c (below 128) is in the class
\* [\w\-\./:,\\() ] of extract_printable_strings.
InClass(c) ==
    \/ c \in 48..57 \/ c \in 65..90 \/ c \in 97..122 \/ c = 95
    \/ c \in {45, 46, 47, 58, 44, 92, 40, 41, 32}

\* The runs of at least min_len class characters of s, `cur` being the run
\* that is read.
RECURSIVE RunsFrom(_, _, _)
RunsFrom(s, min_len, cur) ==
    IF s = <<>> THEN (IF Len(cur) >= min_len THEN <<cur>> ELSE <<>>)
    ELSE IF InClass(s[1]) THEN RunsFrom(Tail(s), min_len, Append(cur, s[1]))
    ELSE (IF Len(cur) >= min_len THEN <<cur>> ELSE <<>>) \o RunsFrom(Tail(s), min_len, <<>>)

extract_printable_strings(data, min_len) == RunsFrom(data, min_len, <<>>)

parse_unknown(data) ==
    [hex_prefix |-> Hex(Slice(data, 0, 48)),
     strings |-> extract_printable_strings(data, 4)]

parse_line_0x0A(data) ==
    IF data = <<>> THEN [text |-> <<>>]
    ELSE [text |-> Slice(data, 1, 1 + data[1])]

parse_text_0x54(data) ==
    IF Len(data) >= 4
    THEN PutIf(Len(data) > 4, Put(EmptyDict, "id", FromBytes(Slice(data, 0, 4))),
               "text", UpToNul(SliceFrom(data, 4)))
    ELSE Put(EmptyDict, "id", FromBytes(data))

parse_sha_0x6D(data) == [sha_hex |-> Hex(Slice(data, 0, 32))]

parse_signature(rec_type, data) ==
    [sig_len |-> Len(data), sig_hex_prefix |-> Hex(Slice(data, 0, 16))]

\* while len(data) >= off + 6: vals.append(bcd6_to_decimal(...)); off += 6
RECURSIVE ReadBcds(_, _, _)
ReadBcds(data, off, vals) ==
    IF Len(data) >= off + 6
    THEN ReadBcds(data, off + 6,
                  Append(vals, bcd6_to_decimal(Slice(data, off, off + 6), 2)))
    ELSE [vals |-> vals, off |-> off]

parse_sum_currency_0x73(data) ==
    LET r == ReadBcds(data, 0, <<>>)
        o1 == Put(EmptyDict, "values", r.vals)
        has_currency == Len(data) >= r.off + 3
        o2 == PutIf(has_currency, o1, "currency",
                    DecodeAscii(Slice(data, r.off, r.off + 3)))
        off == IF has_currency THEN r.off + 3 ELSE r.off
    IN  WithRest(data, [out |-> o2, off |-> off])

parse_vat_summary_0x76(data) ==
    LET has_rates == Len(data) >= 28
        o1 == PutIf(has_rates, EmptyDict, "rates",
                    [i \in 1..14 |-> FromBytes(Slice(data, 2 * (i - 1), 2 * i))])
        r == ReadBcds(data, IF has_rates THEN 28 ELSE 0, <<>>)
        o2 == Put(o1, "numbers", r.vals)
    IN  PutIf(Len(data) >= r.off + 3, o2, "currency",
              DecodeAscii(Slice(data, r.off, r.off + 3)))

parse_record(rec_type, data) ==
    CASE rec_type = 68 -> parse_header_0x44(data)
      [] rec_type = 65 -> parse_footer_0x41(data)
      [] rec_type = 10 -> parse_line_0x0A(data)
      [] rec_type = 84 -> parse_text_0x54(data)
      [] rec_type = 109 -> parse_sha_0x6D(data)
      [] rec_type = 97 -> parse_sale_0x61(data)
      [] rec_type = 99 -> parse_packaging_0x63(data)
      [] rec_type = 100 -> parse_values_0x64(data)
      [] rec_type = 106 -> parse_payment_0x6A(data)
      [] rec_type = 115 -> parse_sum_currency_0x73(data)
      [] rec_type = 118 -> parse_vat_summary_0x76(data)
      [] rec_type \in {32, 116} -> parse_signature(rec_type, data)
      [] OTHER -> parse_unknown(data)

----------------------------------------------------------------------------
(* SpecDecode: parse_record on the body of a record of each of the types   *)
(* 0x44, 0x41, 0x64, 0x6A, 0x63 and 0x61, cut to each of its lengths.      *)

\* n characters from c on: c + 1, c + 2, ..., c + 9, c, c + 1, ...
Text(n, c) == [i \in 1..n |-> c + (i % 10)]

PLN == <<80, 76, 78>>

\* A whole body of a record of type t.
FullBody(t) ==
    CASE t = 68 -> <<1>> \o PackI(3600) \o PackI(42) \o <<3>> \o Text(10, 48) \o <<65>>
      [] t = 65 -> <<1, 2, 3>> \o PackI(42) \o PackI(3600) \o Text(14, 48) \o Text(8, 65)
                   \o Text(32, 97) \o Text(30, 48)
      [] t = 100 -> <<5, 0, 0, 0, 0, 18, 52>> \o PLN \o <<7>>
      [] t = 106 -> <<1, 2, 0, 0, 0, 0, 18, 52>> \o Text(25, 65) \o PLN
      [] t = 99 -> Text(40, 65) \o <<0, 0, 0, 0, 18, 52>> \o <<0, 0, 0, 0, 0, 5>> \o <<3>>
                   \o <<0, 0, 0, 0, 86, 120>> \o <<1, 2>>
      [] t = 97 -> Text(80, 65) \o <<66>> \o <<0, 0, 0, 0, 18, 52>> \o <<0, 0, 0, 0, 86, 120>>
                   \o <<0, 0, 0, 0, 0, 5>> \o <<2>> \o Text(4, 97) \o Text(50, 48)

DecodedTypes == {68, 65, 100, 106, 99, 97}

\* Bytes that follow the last field of the layout.
Extras == {<<>>, <<9, 8>>}

InitDecode ==
    /\ InitIdle
    /\ pc = "decode"
    /\ key = 0
    /\ sequence = 0
    /\ \E t \in DecodedTypes, x \in Extras :
          \E n \in 0..Len(FullBody(t) \o x) :
             pure = [fn |-> "decode", rec_type |-> t, whole |-> FullBody(t) \o x, n |-> n]

\* parsed = parse_record(rec_type, rec_data), inside parse_records' try.
DecodeRecord ==
    /\ pc = "decode"
    /\ pure.fn = "decode"
    /\ pure' = [fn |-> "decoded", rec_type |-> pure.rec_type, whole |-> pure.whole,
                n |-> pure.n, raised |-> FALSE,
                parsed |-> parse_record(pure.rec_type, Slice(pure.whole, 0, pure.n))]
    /\ UNCHANGED <<key, sequence, idleVars>>

NextDecode == DecodeRecord

SpecDecode == InitDecode /\ [][NextDecode]_vars

\* The fields of a record of type t in the order of its layout: the keys
\* the decoder returns for the field and the field's length.
Part(keys, len) == [keys |-> keys, len |-> len]
PartsOf(t) ==
    CASE t = 68 -> <<Part({"doc_type"}, 1), Part({"timestamp", "timestamp_iso"}, 4),
                     Part({"doc_number"}, 4), Part({"mode"}, 1), Part({"nip"}, 10),
                     Part({"prefix"}, 1)>>
      [] t = 65 -> <<Part({"doc_type"}, 1), Part({"mode"}, 1), Part({"status"}, 1),
                     Part({"doc_number"}, 4), Part({"timestamp", "timestamp_iso"}, 4),
                     Part({"unique_number"}, 14), Part({"kasa_number"}, 8),
                     Part({"cashier"}, 32), Part({"buyer_nip"}, 30)>>
      [] t = 100 -> <<Part({"section_type"}, 1), Part({"value"}, 6),
                      Part({"currency"}, 3), Part({"vat_id"}, 1)>>
      [] t = 106 -> <<Part({"cash_flag"}, 1), Part({"type"}, 1), Part({"amount"}, 6),
                      Part({"name"}, 25), Part({"currency"}, 3)>>
      [] t = 99 -> <<Part({"name"}, 40), Part({"value"}, 6), Part({"qty"}, 6),
                     Part({"precision"}, 1), Part({"total"}, 6), Part({"sign", "kind"}, 2)>>
      [] t = 97 -> <<Part({"name"}, 80), Part({"vat_symbol"}, 1), Part({"price"}, 6),
                     Part({"total"}, 6), Part({"quantity"}, 6), Part({"precision"}, 1),
                     Part({"unit"}, 4), Part({"desc"}, 50)>>

RECURSIVE PartsLen(_, _)
PartsLen(parts, k) == IF k = 0 THEN 0 ELSE PartsLen(parts, k - 1) + parts[k].len

\* The keys of the fields that a body of n bytes holds whole, up to the
\* first field that it does not.
KeysPresent(t, n) ==
    UNION {PartsOf(t)[k].keys : k \in {j \in 1..Len(PartsOf(t)) : PartsLen(PartsOf(t), j) <= n}}

\* C22: a decoder given a body cut to n bytes does not raise and returns
\* the fields that the n bytes hold whole, up to the first field that they
\* do not, each with the value it has in the whole body; the bytes it
\* returns as `rest` are bytes that follow the last field.
C22_TruncatedBodyFields ==
    pure.fn = "decoded" =>
        LET parts == PartsOf(pure.rec_type)
            total == PartsLen(parts, Len(parts))
            full == parse_record(pure.rec_type, pure.whole)
            fields == DOMAIN pure.parsed \ {"rest"}
        IN  /\ ~pure.raised
            /\ fields = KeysPresent(pure.rec_type, pure.n)
            /\ \A k \in fields : k \in DOMAIN full /\ pure.parsed[k] = full[k]
            /\ "rest" \in DOMAIN pure.parsed =>
                  pure.parsed["rest"] = Slice(pure.whole, total, pure.n)

----------------------------------------------------------------------------
(* bin_parser.assemble_document: one step for each record that            *)
(* parse_records yields.                                                   *)

\* What parse_records yields: each record with parsed = parse_record(...).
WithParsed(r) ==
    [rec_type |-> r.rec_type, rec_size |-> r.rec_size, rec_data |-> r.rec_data,
     parsed |-> parse_record(r.rec_type, r.rec_data)]

Yielded(data) ==
    LET recs == parse_records(data).records
    IN  [i \in 1..Len(recs) |-> WithParsed(recs[i])]

\* Python's truth value of a dict: an empty dict is false.
Falsy(d) == DOMAIN d = {}

\* d.get(k, default)
GetOr(d, k, default) == IF k \in DOMAIN d THEN d[k] ELSE default

\* d.setdefault(k, []).append(v)
AppendTo(d, k, v) == Put(d, k, Append(GetOr(d, k, <<>>), v))

NewDoc ==
    [header |-> None, items |-> <<>>, packaging |-> <<>>, values |-> <<>>,
     payments |-> <<>>, vat_summary |-> None, totals |-> None, footer |-> None,
     signatures |-> <<>>, sha |-> None, raw_records |-> <<>>]

\* A chain of branches that takes a line of text for a header.
BranchLinesAsHeader(rec_type) ==
    CASE rec_type \in {68, 10} -> "header"
      [] rec_type = 97 -> "item"
      [] rec_type = 99 -> "packaging"
      [] rec_type = 100 -> "values"
      [] rec_type = 106 -> "payments"
      [] rec_type = 118 -> "vat_summary"
      [] rec_type = 115 -> "totals"
      [] rec_type = 65 -> "footer"
      [] rec_type = 109 -> "sha"
      [] rec_type \in {32, 116} -> "signatures"
      [] OTHER -> "unknowns"

\* A chain of branches that takes currency totals for a VAT summary.
BranchTotalsAsVat(rec_type) ==
    CASE rec_type = 68 -> "header"
      [] rec_type = 10 -> "lines"
      [] rec_type = 97 -> "item"
      [] rec_type = 99 -> "packaging"
      [] rec_type = 100 -> "values"
      [] rec_type = 106 -> "payments"
      [] rec_type \in {118, 115} -> "vat_summary"
      [] rec_type = 65 -> "footer"
      [] rec_type = 109 -> "sha"
      [] rec_type \in {32, 116} -> "signatures"
      [] OTHER -> "unknowns"

\* The branch of the if/elif chain that a record type takes.
Branch(rec_type) ==
    CASE rec_type = 68 -> "header"
      [] rec_type = 10 -> "lines"
      [] rec_type = 97 -> "item"
      [] rec_type = 99 -> "packaging"
      [] rec_type = 100 -> "values"
      [] rec_type = 106 -> "payments"
      [] rec_type = 118 -> "vat_summary"
      [] rec_type = 115 -> "totals"
      [] rec_type = 65 -> "footer"
      [] rec_type = 109 -> "sha"
      [] rec_type \in {32, 116} -> "signatures"
      [] OTHER -> "unknowns"

\* A test that sends every packaging and value entry to the document.
AttachesToItemNever(current_item) == FALSE

\* if current_item is not None: current_item is the index in doc['items']
\* of the item it refers to, 0 for None.
AttachesToItem(current_item) == current_item # 0

\* {'type': rec_type, 'parsed': parsed}
UnknownEntry(r) == [type |-> r.rec_type, parsed |-> r.parsed]

\* doc after current_item.setdefault(k, []).append(v)
AppendToItem(doc, current_item, k, v) ==
    [doc EXCEPT !["items"] = [@ EXCEPT ![current_item] = AppendTo(@, k, v)]]

\* doc after the branch of record r.
Branched(doc, current_item, r) ==
    LET b == Branch(r.rec_type)
    IN  CASE b = "header" -> [doc EXCEPT !["header"] = r.parsed]
          [] b = "lines" ->
                AppendTo(doc, "lines",
                         IF Falsy(r.parsed) THEN r.rec_data ELSE GetOr(r.parsed, "text", None))
          [] b = "item" ->
                [doc EXCEPT !["items"] =
                    Append(@, LET item == IF Falsy(r.parsed)
                                          THEN Put(EmptyDict, "name", Hex(r.rec_data))
                                          ELSE r.parsed
                              IN  Put(item, "extras", GetOr(item, "extras", <<>>)))]
          [] b = "packaging" ->
                LET parsed_p == IF Falsy(r.parsed) THEN parse_packaging_0x63(r.rec_data)
                                ELSE r.parsed
                IN  IF AttachesToItem(current_item)
                    THEN AppendToItem(doc, current_item, "packaging", parsed_p)
                    ELSE [doc EXCEPT !["packaging"] = Append(@, parsed_p)]
          [] b = "values" ->
                LET parsed_v == IF Falsy(r.parsed) THEN parse_values_0x64(r.rec_data)
                                ELSE r.parsed
                IN  IF AttachesToItem(current_item)
                    THEN AppendToItem(doc, current_item, "values", parsed_v)
                    ELSE [doc EXCEPT !["values"] = Append(@, parsed_v)]
          [] b = "payments" ->
                [doc EXCEPT !["payments"] =
                    Append(@, IF Falsy(r.parsed) THEN parse_payment_0x6A(r.rec_data)
                              ELSE r.parsed)]
          [] b = "vat_summary" ->
                [doc EXCEPT !["vat_summary"] =
                    IF Falsy(r.parsed) THEN parse_vat_summary_0x76(r.rec_data) ELSE r.parsed]
          [] b = "totals" ->
                [doc EXCEPT !["totals"] =
                    IF Falsy(r.parsed) THEN parse_sum_currency_0x73(r.rec_data) ELSE r.parsed]
          [] b = "footer" -> [doc EXCEPT !["footer"] = r.parsed]
          [] b = "sha" -> [doc EXCEPT !["sha"] = r.parsed]
          [] b = "signatures" -> [doc EXCEPT !["signatures"] = Append(@, r.parsed)]
          [] b = "unknowns" -> AppendTo(doc, "unknowns", UnknownEntry(r))

\* doc after one iteration of the loop: the raw_records entry, then the branch.
Assembled(doc, current_item, r) ==
    Branched([doc EXCEPT !["raw_records"] =
                 Append(@, [type |-> r.rec_type, size |-> r.rec_size])],
             current_item, r)

\* current_item after the iteration: the item that a 0x61 record appended.
CurrentItemAfter(doc, current_item, r) ==
    IF Branch(r.rec_type) = "item" THEN Len(doc["items"]) + 1 ELSE current_item

----------------------------------------------------------------------------
(* SpecAssemble: assemble_document on streams of records of every type,    *)
(* on streams of items, packaging and value records, and on pairs of       *)
(* records of an unknown type.                                             *)

MaxMixed == 2
MaxNest == 4

UnknownType == 153
AllTypes == {68, 10, 97, 99, 100, 106, 118, 115, 65, 109, 32, 116, 84, UnknownType}
NestTypes == {97, 99, 100}

\* The body of the record of type t at place k of a stream.
ShortBody(t, k) == <<k>>
LongBody(t, k) ==
    CASE t \in DecodedTypes -> FullBody(t)
      [] t = 10 -> <<3, 65, 66, 67, 68>>
      [] t = 84 -> <<0, 0, 0, k, 72, 73>>
      [] t = 109 -> <<k, 171>>
      [] t \in {32, 116} -> <<k, 1, 2>>
      [] t \in {118, 115} -> <<0, 0, 0, 0, 18, 52>> \o PLN
      [] OTHER -> <<72, 69, 76, 76, 79, k>>

Stream(types, long) ==
    [k \in 1..Len(types) |->
        LET b == IF long THEN LongBody(types[k], k) ELSE ShortBody(types[k], k)
        IN  Record(types[k], REC_HEADER_LEN + Len(b), b)]

\* Bodies of a record of an unknown type: two of 49 bytes that differ in
\* the last byte, two of 2 bytes.
UnknownBodies ==
    {[i \in 1..49 |-> IF i = 49 THEN x ELSE 65] : x \in {0, 1}} \cup {<<1, 2>>, <<1, 3>>}

AssembleInputs ==
    {Stream(types, long) : types \in UNION {[1..n -> AllTypes] : n \in 0..MaxMixed},
                           long \in BOOLEAN}
    \cup {Stream(types, long) : types \in UNION {[1..n -> NestTypes] : n \in 0..MaxNest},
                                long \in BOOLEAN}
    \cup {<<Record(UnknownType, REC_HEADER_LEN + Len(a), a),
            Record(UnknownType, REC_HEADER_LEN + Len(b), b)>> :
             a \in UnknownBodies, b \in UnknownBodies}

\* The body of the header-decode scenario: doc_type 01, timestamp
\* 00 00 0E 10, doc_number 00 00 00 2A, mode 00, nip "5260000000", prefix "A".
Scenario1Nip == <<53, 50, 54, 48, 48, 48, 48, 48, 48, 48>>
Scenario1Body == <<1>> \o <<0, 0, 14, 16>> \o <<0, 0, 0, 42>> \o <<0>> \o Scenario1Nip \o <<65>>

\* The scenario's input under a header 00 00 00 44 hi lo that declares
\* the size rec_size.
Scenario1(rec_size) ==
    <<0, 0, 0, 68, rec_size \div TwoTo8, rec_size % TwoTo8>> \o Scenario1Body

\* 0x1A, the size the scenario declares, and 0x1B, the header's 6 bytes
\* plus the 21 bytes of the body.
Scenario1Sizes == {26, 27}

AssembleData ==
    {EncodeRecords(stream) : stream \in AssembleInputs}
    \cup {Scenario1(rec_size) : rec_size \in Scenario1Sizes}

InitAssemble ==
    /\ InitIdle
    /\ pc = "assemble"
    /\ key = 0
    /\ sequence = 0
    /\ \E data \in AssembleData :
          pure = [fn |-> "assemble", data |-> data,
                  recs |-> Yielded(data), i |-> 1,
                  doc |-> NewDoc, current_item |-> 0]

\* One iteration of `for rec_type, rec_size, rec_data, parsed in
\* parse_records(data)`.
AssembleRecord ==
    /\ pc = "assemble"
    /\ pure.fn = "assemble"
    /\ pure.i <= Len(pure.recs)
    /\ pure' = [pure EXCEPT
                   !.doc = Assembled(pure.doc, pure.current_item, pure.recs[pure.i]),
                   !.current_item =
                       CurrentItemAfter(pure.doc, pure.current_item, pure.recs[pure.i]),
                   !.i = pure.i + 1]
    /\ UNCHANGED <<key, sequence, idleVars>>

\* return doc
AssembleReturn ==
    /\ pc = "assemble"
    /\ pure.fn = "assemble"
    /\ pure.i > Len(pure.recs)
    /\ pure' = [pure EXCEPT !.fn = "assembled"]
    /\ UNCHANGED <<key, sequence, idleVars>>

NextAssemble ==
    \/ AssembleRecord
    \/ AssembleReturn

SpecAssemble == InitAssemble /\ [][NextAssemble]_vars

\* The places of the records of type t among the first n records.
RECURSIVE PlacesOf(_, _, _)
PlacesOf(recs, n, t) ==
    IF n = 0 THEN <<>>
    ELSE IF recs[n].rec_type = t THEN Append(PlacesOf(recs, n - 1, t), n)
    ELSE PlacesOf(recs, n - 1, t)

\* The decoded bodies of the records of type t at the places lo..hi.
RECURSIVE DecodedBetween(_, _, _, _)
DecodedBetween(recs, lo, hi, t) ==
    IF lo > hi THEN <<>>
    ELSE IF recs[hi].rec_type = t
    THEN Append(DecodedBetween(recs, lo, hi - 1, t), parse_record(t, recs[hi].rec_data))
    ELSE DecodedBetween(recs, lo, hi - 1, t)

\* C23: after each iteration, the packaging (0x63) and value (0x64) records
\* read so far are, in stream order, in the list of the last item (0x61)
\* that stands before them, and in the list of the document when no item
\* stands before them; no list holds anything else.
C23_NestedUnderLatestItem ==
    pure.fn \in {"assemble", "assembled"} =>
        LET n == pure.i - 1
            items == PlacesOf(pure.recs, n, 97)
            first == IF items = <<>> THEN n + 1 ELSE items[1]
            Until(k) == IF k = Len(items) THEN n ELSE items[k + 1] - 1
        IN  /\ Len(pure.doc["items"]) = Len(items)
            /\ pure.doc["packaging"] = DecodedBetween(pure.recs, 1, first - 1, 99)
            /\ pure.doc["values"] = DecodedBetween(pure.recs, 1, first - 1, 100)
            /\ \A k \in 1..Len(items) :
                  /\ GetOr(pure.doc["items"][k], "packaging", <<>>) =
                         DecodedBetween(pure.recs, items[k] + 1, Until(k), 99)
                  /\ GetOr(pure.doc["items"][k], "values", <<>>) =
                         DecodedBetween(pure.recs, items[k] + 1, Until(k), 100)

\* A stream value, item, packaging, item has been assembled: the value is
\* at the level of the document and the packaging under the first item.
C23_Witness ==
    /\ pure.fn = "assembled"
    /\ Len(pure.recs) = 4
    /\ [k \in 1..4 |-> pure.recs[k].rec_type] = <<100, 97, 99, 97>>
    /\ Len(pure.doc["values"]) = 1
    /\ Len(GetOr(pure.doc["items"][1], "packaging", <<>>)) = 1
    /\ "packaging" \notin DOMAIN pure.doc["items"][2]

RECURSIVE NestedCount(_, _)
NestedCount(items, k) ==
    IF k = 0 THEN 0
    ELSE NestedCount(items, k - 1) + Len(GetOr(items[k], "packaging", <<>>))
         + Len(GetOr(items[k], "values", <<>>))

\* C24: raw_records holds the (type, size) of each record read so far, in
\* stream order, and its length is the number of items, lines, payments,
\* signatures, unknowns, packaging and value entries of both levels, and
\* of 0x44, 0x41, 0x6D, 0x76 and 0x73 records read.
C24_RawRecordsParallel ==
    pure.fn \in {"assemble", "assembled"} =>
        LET n == pure.i - 1
            doc == pure.doc
            Seen(t) == Len(PlacesOf(pure.recs, n, t))
        IN  /\ doc["raw_records"] =
                   [k \in 1..n |-> [type |-> pure.recs[k].rec_type,
                                    size |-> pure.recs[k].rec_size]]
            /\ Len(doc["raw_records"]) =
                   Len(doc["items"]) + Len(GetOr(doc, "lines", <<>>))
                   + Len(doc["payments"]) + Len(doc["signatures"])
                   + Len(GetOr(doc, "unknowns", <<>>))
                   + Len(doc["packaging"]) + Len(doc["values"])
                   + NestedCount(doc["items"], Len(doc["items"]))
                   + Seen(68) + Seen(65) + Seen(109) + Seen(118) + Seen(115)

\* A line and a record of an unknown type have been assembled.
C24_Witness ==
    /\ pure.fn = "assembled"
    /\ Len(pure.recs) = 2
    /\ pure.recs[1].rec_type = 10
    /\ pure.recs[2].rec_type = UnknownType
    /\ Len(pure.doc["raw_records"]) = 2
    /\ Len(pure.doc["lines"]) = 1
    /\ Len(pure.doc["unknowns"]) = 1

\* C25: the unknowns entries of two records of unknown type are equal only
\* when the records have the same type and the same body.
C25_UnknownsLossless ==
    (pure.fn = "assembled" /\ "unknowns" \in DOMAIN pure.doc) =>
        LET places == PlacesOf(pure.recs, Len(pure.recs), UnknownType)
            unknowns == pure.doc["unknowns"]
        IN  (Len(places) = Len(unknowns)) =>
                \A a, b \in 1..Len(places) :
                    unknowns[a] = unknowns[b] =>
                        pure.recs[places[a]].rec_data = pure.recs[places[b]].rec_data

----------------------------------------------------------------------------
(* read_file_fsp against a server of 128-byte segments, under SpecRead.    *)

\* C26: when the server hands out 128 bytes at a time and answers every
\* request, each get_file asks for the position that is the number of bytes
\* read so far, a multiple of 128; read_file_fsp returns the L bytes of the
\* file after L div 128 + 1 reads (one handshake before them): the last
\* read is the first one shorter than 128, and is empty when L is a
\* multiple of 128.
C26_ReadsBySegment ==
    (lp.fn = "read" /\ env.seg = DefaultSegmentSize /\ faults = ReadFaults) =>
        LET L == Len(env.fs.files[lp.path])
        IN  /\ (opst \in {"cmd_wait", "ret"}) =>
                  /\ last_sent.command = CC_GET_FILE
                  /\ last_sent.position = Len(lp.result)
                  /\ last_sent.position % DefaultSegmentSize = 0
                  /\ last_sent.position <= L
            /\ lp.st = "done" =>
                  /\ lp.result = env.fs.files[lp.path]
                  /\ nsent = (L \div DefaultSegmentSize) + 2
                  /\ last_sent.position = (L \div DefaultSegmentSize) * DefaultSegmentSize
                  /\ ~ret.none
                  /\ Len(ret.data) = L % DefaultSegmentSize

\* A file of 300 bytes has been read with reads at 0, 128 and 256.
C26_Witness ==
    /\ lp.fn = "read"
    /\ lp.st = "done"
    /\ env.seg = DefaultSegmentSize
    /\ faults = ReadFaults
    /\ Len(env.fs.files[lp.path]) = 300
    /\ Len(lp.result) = 300
    /\ nsent = 4
    /\ last_sent.position = 256
    /\ Len(ret.data) = 44

----------------------------------------------------------------------------
(* list_directory_full_paged, under SpecPage. *)

\* C27: every listing call of list_directory_full_paged asks for the
\* position that is the number of entries the calls before it returned;
\* the loop is over, with no call left, after the first page that has the
\* end-marker or no entry, and goes on after any other page.
C27_PagedPositions ==
    lp.fn = "paged" =>
        /\ opst # "none" => (op.name = "list" /\ op.position = Len(lp.all_entries))
        /\ opst = "cmd_wait" =>
              (last_sent.command = CC_GET_DIR /\ last_sent.position = Len(lp.all_entries))
        /\ lp.st = "done" => (opst = "none" /\ (ret.entries = <<>> \/ ret.found_end))
        /\ (lp.st = "run" /\ opst = "none" /\ nsent > 0) =>
              (ret.entries # <<>> /\ ~ret.found_end)
        /\ (lp.st = "done" /\ env.page = LongDirPage /\ faults = PageFaults) =>
              (nsent = 3 /\ Len(lp.all_entries) = LongDirLen)

\* The directory of 57 files has been listed by two calls, at positions 0
\* and 40, the second page holding 17 entries and the end-marker.
C27_Witness ==
    /\ lp.fn = "paged"
    /\ lp.st = "done"
    /\ env.page = LongDirPage
    /\ faults = PageFaults
    /\ nsent = 3
    /\ last_sent.position = LongDirPage
    /\ Len(ret.entries) = LongDirLen - LongDirPage
    /\ ret.found_end
    /\ Len(lp.all_entries) = LongDirLen
    /\ \A i \in 1..LongDirLen : lp.all_entries[i].timestamp = i

----------------------------------------------------------------------------
(* stat_file, under SpecResponse. *)

\* C28: on a response that is not the error command and whose payload has
\* at least 9 bytes, stat_file returns the timestamp, the size and the type
\* held by the first 9 bytes of the payload.
C28_StatFromNineBytes ==
    (/\ pure.fn = "done"
     /\ pure.name = "stat"
     /\ Len(pure.bytes) >= HEADER_LEN
     /\ pure.bytes[1] # CC_ERR
     /\ Len(parse_fsp_packet(pure.bytes).data) >= 9) =>
        LET data == parse_fsp_packet(pure.bytes).data
        IN  /\ ~pure.outcome.raised
            /\ ~pure.outcome.value.none
            /\ pure.outcome.value.timestamp = UnpackI(SubSeq(data, 1, 4))
            /\ pure.outcome.value.size = UnpackI(SubSeq(data, 5, 8))
            /\ pure.outcome.value.type = TypeName(data[9])

----------------------------------------------------------------------------
(* The header-decode scenario, under SpecAssemble. *)

\* "2000-01-01T01:00:00"
Scenario1Iso ==
    <<50, 48, 48, 48, 45, 48, 49, 45, 48, 49, 84, 48, 49, 58, 48, 48, 58, 48, 48>>

Scenario1Fields ==
    [doc_type |-> 1, timestamp |-> 3600, timestamp_iso |-> Scenario1Iso,
     doc_number |-> 42, mode |-> 0, nip |-> Scenario1Nip]

\* The scenario as stated: under the header 00 00 00 44 00 1A parse_records
\* yields one 0x44 record whose fields include prefix "A".
C29_Scenario1WithPrefix ==
    pure.data = Scenario1(26) =>
        /\ Len(pure.recs) = 1
        /\ pure.recs[1].rec_type = 68
        /\ pure.recs[1].parsed = Put(Scenario1Fields, "prefix", <<65>>)

\* C29: under the header 00 00 00 44 00 1A parse_records yields one 0x44
\* record of size 26 whose body is the first 20 bytes of the scenario's
\* body and whose fields are doc_type 1, timestamp 3600, timestamp_iso
\* 2000-01-01T01:00:00, doc_number 42, mode 0 and nip 5260000000, with no
\* prefix; under the header 00 00 00 44 00 1B the body has all 21 bytes and
\* the fields are the same with prefix "A".  assemble_document takes the
\* fields as the document's header.
C29_Scenario1Declared ==
    \A rec_size \in Scenario1Sizes :
        pure.data = Scenario1(rec_size) =>
            /\ Len(pure.recs) = 1
            /\ pure.recs[1].rec_type = 68
            /\ pure.recs[1].rec_size = rec_size
            /\ pure.recs[1].rec_data = SubSeq(Scenario1Body, 1, rec_size - REC_HEADER_LEN)
            /\ pure.recs[1].parsed =
                  IF rec_size = 26 THEN Scenario1Fields
                  ELSE Put(Scenario1Fields, "prefix", <<65>>)
            /\ pure.fn = "assembled" => pure.doc["header"] = pure.recs[1].parsed

\* The scenario's input with the declared size 0x1A has been decoded and
\* assembled: a header without prefix.
C29_Witness ==
    /\ pure.fn = "assembled"
    /\ pure.data = Scenario1(26)
    /\ pure.i = 2
    /\ pure.doc["header"] = Scenario1Fields
    /\ "prefix" \notin DOMAIN pure.recs[1].parsed

----------------------------------------------------------------------------
(* _parse_directory_listing_with_end over listing payloads: runs of       *)
(* entries of every type, with and without a name, whole or cut short at  *)
(* the end.                                                                *)

MaxListed == 2
MaxCut == 4

RDTYPE_OTHER == 3

ListedTypes == {RDTYPE_END, RDTYPE_FILE, RDTYPE_DIR, RDTYPE_OTHER}
ListedNames == {<<>>, <<97>>, <<97, 98, 99>>}

ListedEntries ==
    {[timestamp |-> 7 * Len(n), size |-> 5 + t, type |-> t, name |-> n] :
        t \in ListedTypes, n \in ListedNames}

ListingInputs ==
    {[es |-> es, cut |-> cut] :
        es \in UNION {[1..n -> ListedEntries] : n \in 0..MaxListed}, cut \in 0..MaxCut}

\* The payload of the entries es without its last cut bytes.
CutPayload(es, cut) == Slice(EncodeEntries(es), 0, Len(EncodeEntries(es)) - cut)

InitListing ==
    /\ InitIdle
    /\ pc = "listing"
    /\ key = 0
    /\ sequence = 0
    /\ \E i \in ListingInputs :
          pure = [fn |-> "parse", es |-> i.es, cut |-> i.cut,
                  data |-> CutPayload(i.es, i.cut)]

\* entries, found_end = self._parse_directory_listing_with_end(data)
ListingParse ==
    /\ pc = "listing"
    /\ pure.fn = "parse"
    /\ pure' = [fn |-> "parsed", es |-> pure.es, cut |-> pure.cut, data |-> pure.data,
                out |-> parse_directory_listing_with_end(pure.data)]
    /\ UNCHANGED <<key, sequence, idleVars>>

NextListing == ListingParse

SpecListing == InitListing /\ [][NextListing]_vars

\* The entry boundary of entry i of the payload: the offset where it starts.
EntryStart(es, i) == Len(EncodeEntries(SubSeq(es, 1, i - 1)))

\* The entries whose type byte lies in the payload.
Standing(es, data) == {i \in 1..Len(es) : EntryStart(es, i) + 8 < Len(data)}

\* The name of entry i as far as the payload holds it.
PayloadName(es, data, i) ==
    Slice(data, EntryStart(es, i) + 9, EntryStart(es, i) + 9 + Len(es[i].name))

\* The entries before place `stop` that the parser is to return, as the
\* subsequence of their places.
RECURSIVE ReturnedPlaces(_, _, _, _)
ReturnedPlaces(es, data, i, stop) ==
    IF i >= stop \/ i \notin Standing(es, data) THEN <<>>
    ELSE IF es[i].type \in {RDTYPE_FILE, RDTYPE_DIR} /\ PayloadName(es, data, i) # <<>>
    THEN <<i>> \o ReturnedPlaces(es, data, i + 1, stop)
    ELSE ReturnedPlaces(es, data, i + 1, stop)

ReturnedEntry(es, data, i) ==
    [name |-> PayloadName(es, data, i), type |-> TypeName(es[i].type),
     size |-> es[i].size, timestamp |-> es[i].timestamp,
     is_dir |-> (es[i].type = RDTYPE_DIR)]

\* C30: end_reached is true exactly when an entry of type 0x00 stands at an
\* entry boundary of the payload; the entries returned are the entries of
\* type 0x01/0x02 with a non-empty name before the first such entry (all
\* of them when there is none), in payload order.
C30_ListingUpToEndMarker ==
    pure.fn = "parsed" =>
        LET ends == {i \in Standing(pure.es, pure.data) : pure.es[i].type = RDTYPE_END}
            stop == IF ends = {} THEN Len(pure.es) + 1
                    ELSE CHOOSE i \in ends : \A j \in ends : i <= j
            places == ReturnedPlaces(pure.es, pure.data, 1, stop)
        IN  /\ pure.out.found_end = (ends # {})
            /\ pure.out.entries =
                  [k \in 1..Len(places) |-> ReturnedEntry(pure.es, pure.data, places[k])]

----------------------------------------------------------------------------
(* The directory filter of gather_and_print, for one directory entry       *)
(* `name` of the directory `path`.                                         *)

\* Start indexes with the start triples (0,0,0), (0,0,1), (0,1,0), (1,0,0).
FilterStarts == {46, 101, 10000, 1000000}

D0 == <<48>>
D1 == <<49>>
D00 == <<48, 48>>
D01 == <<48, 49>>
D02 == <<48, 50>>

FilterNames == {D0, D1, D00, D01, D02}

\* doc_root, the directories DOC/A and DOC/A/BB, and CC directories.
FilterPaths ==
    {DocRoot, JoinPath(DocRoot, D0), JoinPath(DocRoot, D1),
     JoinPath(JoinPath(DocRoot, D0), D00), JoinPath(JoinPath(DocRoot, D0), D01),
     JoinPath(JoinPath(JoinPath(DocRoot, D0), D00), D00),
     JoinPath(JoinPath(JoinPath(DocRoot, D0), D00), D01)}

InitFilter ==
    /\ InitIdle
    /\ pc = "filter"
    /\ key = 0
    /\ sequence = 0
    /\ \E path \in FilterPaths, name \in FilterNames, idx \in FilterStarts,
          st \in BOOLEAN :
          pure = [fn |-> "filter", path |-> path, name |-> name,
                  start_index |-> idx, started |-> st]

\* gather_and_print: `if start_parts and not started:` ... `if skip:
\* continue`, else gather_and_print(f"{path}/{name}").
FilterDir ==
    /\ pc = "filter"
    /\ pure.fn = "filter"
    /\ LET cmp == IF ~pure.started
                  THEN CompareFrom(Comp(pure.path, pure.name, DocRoot),
                                   StartParts(pure.start_index), 1)
                  ELSE "equal"
       IN  pure' = [fn |-> "filtered", path |-> pure.path, name |-> pure.name,
                    start_index |-> pure.start_index, started |-> pure.started,
                    skip |-> (cmp = "skip"),
                    started_after |-> (pure.started \/ cmp = "after")]
    /\ UNCHANGED <<key, sequence, idleVars>>

NextFilter == FilterDir

SpecFilter == InitFilter /\ [][NextFilter]_vars

\* The numbers of the path of the subdirectory `name` of `path`, below
\* doc_root.
PartsOfDir(path, name) ==
    LET parts == Append(RelParts(path, DocRoot), name)
    IN  [i \in 1..Len(parts) |-> DigitsValue(parts[i])]

\* parts is strictly before the triple: at the first place where they
\* differ, parts holds the smaller number.
StrictlyBefore(parts, triple) ==
    \E i \in 1..Min(Len(parts), 3) :
        /\ parts[i] < triple[i]
        /\ \A j \in 1..(i - 1) : parts[j] = triple[j]

\* parts is the triple or the beginning of it: DOC/A, DOC/A/BB, DOC/A/BB/CC.
AncestorOrSelf(parts, triple) ==
    /\ Len(parts) <= 3
    /\ \A j \in 1..Len(parts) : parts[j] = triple[j]

----------------------------------------------------------------------------
(* The file filter of the tree walk, under SpecRun. *)

\* The last part of a path.
BaseName(path) == Split(path, SLASH)[Len(Split(path, SLASH))]

\* DDDDDDDD.BIN or *.SIG, case-insensitively.
DocumentName(name) ==
    \/ /\ Len(name) = 8 + Len(DotBIN)
       /\ IsDigits(SubSeq(name, 1, 8))
       /\ EndsWith(Upper(name), DotBIN)
    \/ EndsWith(Upper(name), DotSIG)

\* C32: the walk hands a file to the storage only when its name is eight
\* digits followed by .BIN or ends with .SIG, in any case of the letters;
\* a run without start index that ended with no failure and no signal has
\* handed over every such file of the archive.
C32_OnlyDocumentNames ==
    /\ \A i \in 1..Len(attempted) : DocumentName(BaseName(attempted[i]))
    /\ (pc = "done" /\ ~signalled /\ faults = RunFaults /\ ~env.has_start
        /\ env.medium = "ok") =>
           \A p \in DOMAIN FilesOf(DocRoot, env.tree, 1) :
               DocumentName(BaseName(p)) => \E i \in 1..Len(attempted) : attempted[i] = p

----------------------------------------------------------------------------
(* close(), under Spec. *)

\* C33: when close() has returned, the client holds no initialized session:
\* session_initialized is false and the key is 0.
C33_CloseTearsDown ==
    (op.name = "close" /\ opst = "ret") => (~session_initialized /\ key = 0)

----------------------------------------------------------------------------
(* The single-valued slots of the document, under SpecAssemble. *)

\* The slots and the record type that sets each.
SlotTypes ==
    [header |-> 68, footer |-> 65, sha |-> 109, vat_summary |-> 118, totals |-> 115]

\* The place of the last record of type t among the first n records, 0
\* when there is none.
LastOf(recs, t, n) ==
    LET places == {k \in 1..n : recs[k].rec_type = t}
    IN  IF places = {} THEN 0 ELSE CHOOSE k \in places : \A j \in places : j <= k

\* C34: after any number of records, and so after assemble_document, each
\* of the slots header, footer, sha, vat_summary and totals holds the parsed
\* form of the last record of its type so far, or None when there was no
\* such record.
C34_LastRecordWins ==
    pure.fn \in {"assemble", "assembled"} =>
        \A slot \in DOMAIN SlotTypes :
            LET k == LastOf(pure.recs, SlotTypes[slot], pure.i - 1)
            IN  pure.doc[slot] = IF k = 0 THEN None ELSE pure.recs[k].parsed

\* A document of two header records with different contents has been
\* assembled; its header is the second one, its other slots are empty.
C34_Witness ==
    /\ pure.fn = "assembled"
    /\ Len(pure.recs) = 2
    /\ pure.recs[1].rec_type = 68
    /\ pure.recs[2].rec_type = 68
    /\ pure.recs[1].parsed # pure.recs[2].parsed
    /\ pure.doc["header"] = pure.recs[2].parsed
    /\ pure.doc["totals"] = None

----------------------------------------------------------------------------
(* bcd_to_int and bcd_to_decimal over byte strings of up to MaxBcdWidth    *)
(* bytes, and over the 6-byte price of the BCD scenario.                   *)

MaxBcdWidth == 2

\* 0x00, 0x01, 0x09, 0x10, 0x23, 0x45, 0x99, and the bytes 0x0A and 0xF0
\* that hold a nibble above 9.
BcdBytes == {0, 1, 9, 16, 35, 69, 153, 10, 240}

\* 00 00 00 01 23 45
ScenarioPrice == <<0, 0, 0, 1, 35, 69>>

BcdInputs == UNION {[1..w -> BcdBytes] : w \in 0..MaxBcdWidth} \cup {ScenarioPrice}

InitBcd ==
    /\ InitIdle
    /\ pc = "bcd"
    /\ key = 0
    /\ sequence = 0
    /\ \E b \in BcdInputs : pure = [fn |-> "bcd", b |-> b]

\* bcd_to_decimal(b, 2), which calls bcd_to_int(b)
BcdToDecimal ==
    /\ pc = "bcd"
    /\ pure.fn = "bcd"
    /\ pure' = [fn |-> "converted", b |-> pure.b, int |-> bcd_to_int(pure.b),
                decimal |-> bcd_to_decimal(pure.b, 2)]
    /\ UNCHANGED <<key, sequence, idleVars>>

NextBcd == BcdToDecimal

SpecBcd == InitBcd /\ [][NextBcd]_vars

\* v < 10^n, by the number of v's decimal digits.
Below10To(v, n) == v = 0 \/ Len(DecStr(v)) <= n

\* The nibbles of b in order, the high nibble of each byte first.
Nibbles(b) ==
    [k \in 1..(2 * Len(b)) |->
        IF k % 2 = 1 THEN b[(k + 1) \div 2] \div 16 ELSE b[k \div 2] % 16]

\* The number whose decimal digits are ds.
RECURSIVE DigitsNumber(_)
DigitsNumber(ds) ==
    IF ds = <<>> THEN 0
    ELSE DigitsNumber(SubSeq(ds, 1, Len(ds) - 1)) * 10 + ds[Len(ds)]

\* C35: for a byte string b of width w, bcd_to_int(b) is below 10^(2w) and,
\* its nibbles read as decimal digits, is the number with these digits; for
\* 00 00 00 01 23 45 it is 12345 and bcd_to_decimal at precision 2 is
\* 12345 / 10^2.
C35_BcdDigits ==
    pure.fn = "converted" =>
        /\ Below10To(pure.int, 2 * Len(pure.b))
        /\ pure.int = DigitsNumber(Nibbles(pure.b))
        /\ pure.b = ScenarioPrice =>
              (pure.int = 12345 /\ pure.decimal = [i |-> 12345, precision |-> 2])

----------------------------------------------------------------------------
(* The run with a start index, under SpecRun. *)

\* The number before the first dot of the name of a path, -1 when that is
\* no number.
StemOf(path) ==
    LET stem == Split(BaseName(path), DOT)[1]
    IN  IF IsDigits(stem) THEN DigitsValue(stem) ELSE -1

\* C36: a run with start index N that ended without a failed request, a
\* failed write or a signal has saved every document and signature file of
\* the archive that holds bytes and whose numeric stem is at least N.
C36_StartIndexSavesAll ==
    (env.has_start /\ env.medium = "ok" /\ pc = "done" /\ ~signalled
     /\ faults = RunFaults) =>
        \A p \in DOMAIN FilesOf(DocRoot, env.tree, 1) :
            (/\ DocumentName(BaseName(p))
             /\ StemOf(p) >= env.start_index
             /\ env.fs.files[p] # <<>>) =>
                /\ TargetPath(p) \in DOMAIN disk
                /\ disk[TargetPath(p)] = env.fs.files[p]

----------------------------------------------------------------------------
(* The sidecar, under SpecSave. *)

\* C37: once the call of save_file_from_fsp is over (returned, or cancelled
\* by a signal), a sidecar <file>.meta.json that exists gives the size of
\* the bytes stored at <file>.
C37_SidecarDescribesFile ==
    LET target_path == TargetPath(SavePath)
        meta_path == target_path \o MetaSuffix
    IN  (pc = "done" /\ meta_path \in DOMAIN disk) =>
            /\ target_path \in DOMAIN disk
            /\ disk[meta_path].size = Len(disk[target_path])

----------------------------------------------------------------------------
(* A handshake that fails, under Spec. *)

\* C38: an operation of an uninitialized client sends the handshake first,
\* which advances the sequence by 1; when _init_session fails (no datagram,
\* or one shorter than a header) the operation returns without sending
\* another packet, list_directory with no entries and no end-marker and
\* get_file with None, and leaves session_initialized false and key and
\* sequence as they were; the command packet is only sent by an initialized
\* client, and the next list_directory or get_file of an uninitialized
\* client sends the handshake again.
C38_FailedHandshake ==
    [][/\ (opst = "call" /\ op.name \in {"list", "get"} /\ ~session_initialized
           /\ nsent' # nsent) =>
             /\ opst' = "hs_wait"
             /\ last_sent'.command = CC_VERSION
             /\ sequence' = (sequence + 1) % TwoTo16
             /\ nsent' = nsent + 1
       /\ (opst = "hs_wait" /\ opst' = "ret") =>
             /\ op.name \in {"list", "get"}
             /\ ret' = IF op.name = "list" THEN [entries |-> <<>>, found_end |-> FALSE]
                       ELSE None
             /\ ~session_initialized'
             /\ key' = key
             /\ sequence' = sequence
             /\ nsent' = nsent
       /\ (opst = "hs_wait" /\ opst' \notin {"hs_wait", "ret"}) =>
             /\ session_initialized'
             /\ opst' = "cmd"]_vars

\* After a failed handshake of list_directory the next operation, a
\* get_file, has sent its own handshake, which failed too: two packets, both
\* handshakes, no session.
C38_Witness ==
    /\ op.name = "get"
    /\ opst = "ret"
    /\ env.base = 0
    /\ nsent = 2
    /\ cmds = {CC_VERSION}
    /\ sequence = 2
    /\ ~session_initialized
    /\ key = 0
    /\ ret = None

\* ---------------------------------------------------------------------------
\* Termination of the run (main.py 295-309, 497-526; fsp_client.py 31-40).
\* ---------------------------------------------------------------------------

\* Every step of the program itself: the main flow and the completion of a
\* signal handler. The arrival of a signal (SignalSend) is the environment's
\* step and is not included. Each request is answered or times out
\* (fsp_client.py 143-154), so the program is never blocked for ever.
RunFlow ==
    \/ StartClose
    \/ StartCloseRet
    \/ MediumRet
    \/ KeyDerRet
    \/ AbortClose
    \/ AbortCloseRet
    \/ LoopTop
    \/ LoopCheck
    \/ WalkRoot
    \/ WalkDone
    \/ FinalClose
    \/ FinalCloseRet
    \/ GatherListed
    \/ GatherDir
    \/ GatherFile
    \/ GatherDetectRet
    \/ SaveFetched
    \/ SaveWrite
    \/ SaveReplace
    \/ SaveMeta
    \/ GatherSaveRet
    \/ GatherReturn
    \/ ReadCall
    \/ ReadStep
    \/ PagedCall
    \/ PagedStep
    \/ InitSessionSend
    \/ InitSessionRecv
    \/ CommandSend
    \/ CommandRecv
    \/ SignalDone

\* Weak fairness of the program's steps, WF_vars(RunFlow), with
\* ENABLED <<RunFlow>>_vars written out as a state predicate: the program has
\* a step to take exactly until it has exited (pc = "done"); while a handler
\* runs, pc is not "done".
RunFair == []<>(pc = "done") \/ []<><<RunFlow>>_vars

\* The run under the scheduling the interpreter gives it: the program keeps
\* taking steps as long as it has one to take. Signals may or may not arrive.
SpecRunLive == InitRun /\ [][NextRun]_vars /\ RunFair

\* No run over RunEnvs sends more packets than this.
MaxRunPackets == 24

\* C39: for every finite archive and every server that answers or times out
\* on each request (also one whose pages never carry the end-marker), the run
\* sends a bounded number of packets, so every paginated listing, every file
\* read and the walk end after finitely many calls; the run terminates, and
\* the last packet it sent is a farewell.
C39_RunTerminates ==
    /\ [](nsent <= MaxRunPackets)
    /\ <>[](pc = "done" /\ hst = "idle" /\ last_sent.command = CC_BYE)

\* A run over the archive served without end-markers has ended, untouched by
\* faults and signals, after walking into the subdirectory.
C39_Witness ==
    /\ pc = "done"
    /\ ~env.end_marker
    /\ faults = RunFaults
    /\ ~signalled
    /\ Len(walked) >= 2
    /\ nsent >= 12
    /\ last_sent.command = CC_BYE
====
